---- MODULE Spec2Model ----
(***************************************************************************)
(* Model of the multi-series synchronisation engine of the MR viewer       *)
(* (class MRViewerView).  One variable per field of the view object, plus  *)
(* the DOM state the handlers read, the plugin's saved snapshot, and the   *)
(* asynchronous work that is in flight (a file batch being processed, a    *)
(* snapshot being reloaded, frame transitions, playback loops).            *)
(* Frame indices are 0-based as in the source; sequences are 1-based, so   *)
(* element i of a source array is seq[i + 1].                              *)
(***************************************************************************)
EXTENDS Integers, Sequences, FiniteSets, TLC

\* ---------------------------------------------------------------- bounds
\* Largest number of files of one label in a generated file batch.
MaxFrames == 2
\* Largest number of playback loops alive at once.
MaxLoops == 2
\* The clock runs from 0 to MaxTime milliseconds in steps of Step.
MaxTime == 1000
Step == 50
\* The clock of the wheel specification runs up to MaxWheelTime milliseconds.
MaxWheelTime == 200
\* At most MaxInflight frame transitions are in flight.
MaxInflight == 4

\* ------------------------------------------------------------- constants
\* position = index * 5 in processSeriesFiles.
Spacing == 5
\* Math.min() of no arguments.
Infinity == 1000000
\* handleWheelScroll: the shortest time between two accepted wheel events,
\* and the accumulated deltaY a navigation needs to exceed.
WheelInterval == 30
WheelThreshold == 30
\* The value of an array read past its end (undefined).
Undefined == -1
Labels == {"T1", "T2"}
NoSeries == "null"

VARIABLES
    seriesData,         \* name -> [frames, positions]; frames[i] is frame i's position
    activeViewers,      \* name -> [currentFrame, currentPosition]
    positionMap,        \* [positions, series: name -> (position -> frame index)]
    currentFrameIndex,
    currentPosition,
    isPlaying,
    playInterval,       \* "null" or "set" (a requestAnimationFrame handle)
    syncEnabled,
    syncMode,
    activeSeries,
    radioMode,          \* which sync-mode radio button is checked
    checkboxChecked,    \* the "enable sync" checkbox
    visible,            \* viewerContainer.style.display = 'block'
    savedSeriesData,    \* plugin.settings.savedSeriesData
    loadPhase,          \* "idle", "batch" (handleFileSelect suspended), "reload"
    pendingGroups,      \* groups of the batch not yet processed
    switched,           \* the viewers on which the last handler called switchImage
    loops,              \* live playback loops: [maxFrames, referenced]
    last,               \* the last traced handler that ran, with its allowLoop argument
    traced,             \* the handlers that last records (fixed by the specification)
    now,                \* the clock: performance.now() and Date.now(), in ms
    delay,              \* framePlayback's delay = 1000 / playbackSpeed
    lastTime,           \* framePlayback's lastTime
    advances,           \* frame advances made by framePlayback since the start
    lastPaint,          \* the time of the latest paint callback (the start at first)
    missedTick,         \* a paint callback came more than one delay after the previous
    lastWheelTime,
    wheelDelta,
    slots,              \* per viewer: its two image elements and currentActive
    inflight,           \* the frame transitions that have not resolved, oldest first
    inFrame,            \* the paint callbacks of a frame are running
    imageCache,         \* the locators whose image the cache holds
    loadResult,         \* per locator, how loading its image ends
    preloads,           \* the preloadImage calls that have not resolved
    input,              \* the argument of the function under study
    output,             \* its result
    objectUrls          \* the object URLs created and not revoked

vars == <<seriesData, activeViewers, positionMap, currentFrameIndex,
          currentPosition, isPlaying, playInterval, syncEnabled, syncMode,
          activeSeries, radioMode, checkboxChecked, visible,
          savedSeriesData, loadPhase, pendingGroups, switched, loops, last, traced,
          now, delay, lastTime, advances, lastPaint, missedTick,
          lastWheelTime, wheelDelta, slots, inflight, inFrame,
          imageCache, loadResult, preloads, input, output, objectUrls>>

\* The state of the timed parts (the pacing of the playback loop, the wheel
\* throttle), which the untimed handlers leave alone.
\* The image elements and the transitions on them are followed in the render
\* specification only; they read and write no field of the controller.
renderVars == <<slots, inflight, inFrame>>

\* The image cache and the loads that fill it are followed in the render and
\* preload specifications only.
cacheVars == <<imageCache, loadResult, preloads>>

\* The argument and result of a function studied on its own, and the store of
\* object URLs, which only the specification of the URLs follows.
pureVars == <<input, output, objectUrls>>

sideVars == <<now, delay, lastTime, advances, lastPaint, missedTick,
              lastWheelTime, wheelDelta, slots, inflight, inFrame,
              imageCache, loadResult, preloads, input, output>>

\* ------------------------------------------------------------- helpers
Min2(a, b) == IF a < b THEN a ELSE b
Max2(a, b) == IF a > b THEN a ELSE b

Range(s) == {s[i] : i \in 1..Len(s)}

\* arr[i] of the source: undefined outside the array.
At(arr, i) == IF i >= 0 /\ i < Len(arr) THEN arr[i + 1] ELSE Undefined

\* x || 0
OrZero(x) == IF x = Undefined THEN 0 ELSE x

SetMin(S) == CHOOSE x \in S : \A y \in S : x <= y

\* Math.min(...values): Infinity when there is no value.
MathMin(S) == IF S = {} THEN Infinity ELSE SetMin(S)

RECURSIVE SortedSeq(_)
SortedSeq(S) == IF S = {} THEN <<>>
                ELSE LET m == SetMin(S) IN <<m>> \o SortedSeq(S \ {m})

EmptyMap == [x \in {} |-> 0]

\* The view object's fields (and the work it has scheduled) as one record,
\* so that a handler is the composition of the methods it calls.
This ==
    [seriesData |-> seriesData, activeViewers |-> activeViewers,
     positionMap |-> positionMap, currentFrameIndex |-> currentFrameIndex,
     currentPosition |-> currentPosition, isPlaying |-> isPlaying,
     playInterval |-> playInterval, syncEnabled |-> syncEnabled,
     syncMode |-> syncMode, activeSeries |-> activeSeries,
     switched |-> {}, loops |-> loops]

Commit(r) ==
    /\ seriesData' = r.seriesData
    /\ activeViewers' = r.activeViewers
    /\ positionMap' = r.positionMap
    /\ currentFrameIndex' = r.currentFrameIndex
    /\ currentPosition' = r.currentPosition
    /\ isPlaying' = r.isPlaying
    /\ playInterval' = r.playInterval
    /\ syncEnabled' = r.syncEnabled
    /\ syncMode' = r.syncMode
    /\ activeSeries' = r.activeSeries
    /\ switched' = r.switched
    /\ loops' = r.loops

\* ------------------------------------------------------- series catalog
\* processSeriesFiles: frame i of a group of n files gets position i * 5.
BatchPositions(n) == [i \in 1..n |-> (i - 1) * Spacing]

BatchSeries(n) == [frames |-> BatchPositions(n), positions |-> BatchPositions(n)]

\* loadFile: one frame at position 0.
SingletonSeries == [frames |-> <<0>>, positions |-> <<0>>]

\* ------------------------------------------------------- position index
\* The last frame index i with positions[i] = p (later writes win).
LastIndexOf(positions, p) ==
    CHOOSE i \in 0..(Len(positions) - 1) :
        /\ positions[i + 1] = p
        /\ \A j \in 0..(Len(positions) - 1) : positions[j + 1] = p => j <= i

SeriesIndex(positions) == [p \in Range(positions) |-> LastIndexOf(positions, p)]

CreatePositionMap(r) ==
    LET all == UNION {Range(r.seriesData[s].positions) : s \in DOMAIN r.seriesData}
        old == r.positionMap.series
    IN [r EXCEPT !.positionMap =
            [positions |-> SortedSeq(all),
             series |-> [s \in DOMAIN old \cup DOMAIN r.seriesData |->
                            IF s \in DOMAIN r.seriesData
                            THEN SeriesIndex(r.seriesData[s].positions)
                            ELSE old[s]]]]

\* this.positionMap[seriesName][position] || 0
Lookup(index, position) == IF position \in DOMAIN index THEN index[position] ELSE 0

\* ---------------------------------------------------- frame transitions
\* switchImage is called for the viewer: a frame transition starts on it.
\* (The transition itself, which alone writes the viewer's active slot, runs
\* over later paint callbacks and reads no field of the controller.)
SwitchImage(r, seriesName) ==
    [r EXCEPT !.switched = @ \cup {seriesName}]

\* updateSeriesFrame.  A TypeError thrown inside the promise executor rejects
\* the promise and leaves the assignments made before it in place.
UpdateSeriesFrame(r, seriesName, frameIndex, forceUpdate) ==
    IF seriesName \notin DOMAIN r.activeViewers \/ seriesName \notin DOMAIN r.seriesData
    THEN r
    ELSE
    LET viewer == r.activeViewers[seriesName]
        series == r.seriesData[seriesName]
        byPosition == r.syncEnabled /\ r.syncMode = "position"
    IN
    IF byPosition /\ seriesName \notin DOMAIN r.positionMap.series
    THEN r      \* positionMap[seriesName] is undefined: TypeError
    ELSE IF ~r.syncEnabled /\ ~forceUpdate
    THEN r
    ELSE
    LET displayFrameIndex ==
            IF byPosition
            THEN Lookup(r.positionMap.series[seriesName],
                        At(r.positionMap.positions, frameIndex))
            ELSE Min2(frameIndex, Len(series.frames) - 1)
    IN
    IF ~forceUpdate /\ viewer.currentFrame = displayFrameIndex
    THEN r
    ELSE
    LET r1 == [r EXCEPT !.activeViewers[seriesName] =
                  [@ EXCEPT !.currentFrame = displayFrameIndex,
                            !.currentPosition = OrZero(At(series.positions, displayFrameIndex))]]
    IN
    IF At(series.frames, displayFrameIndex) = Undefined
    THEN r1     \* frameObj is undefined: TypeError on frameObj.url
    ELSE SwitchImage(r1, seriesName)

RECURSIVE UpdateAll(_, _, _)
UpdateAll(r, names, frameIndex) ==
    IF names = {} THEN r
    ELSE LET s == CHOOSE x \in names : TRUE
         IN UpdateAll(UpdateSeriesFrame(r, s, frameIndex, FALSE), names \ {s}, frameIndex)

\* The index showFrame settles on.
NormalizeIndex(frameIndex, allowLoop, maxFrames) ==
    IF allowLoop
    THEN IF frameIndex < 0 THEN maxFrames - 1
         ELSE IF frameIndex >= maxFrames THEN 0
         ELSE frameIndex
    ELSE Max2(0, Min2(frameIndex, maxFrames - 1))

\* showFrame that, with sync off and no target, still moves every viewer.
ShowFrameMovesAll(r, frameIndex0, allowLoop, targetSeries) ==
    LET maxFrames == Len(r.positionMap.positions)
        frameIndex == NormalizeIndex(frameIndex0, allowLoop, maxFrames)
        r1 == [r EXCEPT !.currentFrameIndex = frameIndex,
                        !.currentPosition = At(r.positionMap.positions, frameIndex)]
    IN
    IF r1.syncEnabled
    THEN UpdateAll(r1, DOMAIN r1.activeViewers, frameIndex)
    ELSE IF targetSeries # NoSeries
    THEN UpdateSeriesFrame(r1, targetSeries, frameIndex, TRUE)
    ELSE [r1 EXCEPT !.activeViewers =
             [s \in DOMAIN @ |->
                 [@[s] EXCEPT !.currentFrame =
                     Max2(0, Min2(frameIndex, Len(r.seriesData[s].frames) - 1))]]]

ShowFrame(r, frameIndex0, allowLoop, targetSeries) ==
    LET maxFrames == Len(r.positionMap.positions)
        frameIndex == NormalizeIndex(frameIndex0, allowLoop, maxFrames)
        r1 == [r EXCEPT !.currentFrameIndex = frameIndex,
                        !.currentPosition = At(r.positionMap.positions, frameIndex)]
    IN
    IF r1.syncEnabled
    THEN UpdateAll(r1, DOMAIN r1.activeViewers, frameIndex)
    ELSE IF targetSeries # NoSeries
    THEN UpdateSeriesFrame(r1, targetSeries, frameIndex, TRUE)
    ELSE r1

\* A step that moves every viewer to the target's new index.
StepTargetMovesAll(r, targetSeries, newIndex) ==
    [r EXCEPT !.currentFrameIndex = newIndex,
              !.currentPosition = At(r.seriesData[targetSeries].positions, newIndex),
              !.activeViewers =
                  [s \in DOMAIN @ |->
                      [@[s] EXCEPT !.currentFrame =
                          Min2(newIndex, Len(r.seriesData[s].frames) - 1)]],
              !.switched = @ \cup {targetSeries}]

\* The non-synced branch shared by showPreviousFrame and showNextFrame.
StepTarget(r, targetSeries, newIndex) ==
    LET series == r.seriesData[targetSeries]
        r1 == [r EXCEPT !.currentFrameIndex = newIndex,
                        !.currentPosition = At(series.positions, newIndex)]
    IN UpdateSeriesFrame(r1, targetSeries, newIndex, TRUE)

ShowPreviousFrame(r, allowLoop, targetSeries) ==
    IF r.syncEnabled
    THEN LET maxFrames == Len(r.positionMap.positions)
             step == r.currentFrameIndex - 1
             newIndex == IF allowLoop
                         THEN (IF step < 0 THEN maxFrames - 1 ELSE step)
                         ELSE Max2(0, step)
         IN ShowFrame(r, newIndex, allowLoop, NoSeries)
    ELSE IF /\ targetSeries # NoSeries
            /\ targetSeries \in DOMAIN r.activeViewers
            /\ targetSeries \in DOMAIN r.seriesData
    THEN LET n == Len(r.seriesData[targetSeries].frames)
             step == r.activeViewers[targetSeries].currentFrame - 1
             newIndex == IF allowLoop
                         THEN (IF step < 0 THEN n - 1 ELSE step)
                         ELSE Max2(0, step)
         IN StepTarget(r, targetSeries, newIndex)
    ELSE r

\* showNextFrame that never wraps.
ShowNextFrameClamped(r, allowLoop, targetSeries) ==
    IF r.syncEnabled
    THEN ShowFrame(r, Min2(Len(r.positionMap.positions) - 1, r.currentFrameIndex + 1),
                   FALSE, NoSeries)
    ELSE IF /\ targetSeries # NoSeries
            /\ targetSeries \in DOMAIN r.activeViewers
            /\ targetSeries \in DOMAIN r.seriesData
    THEN StepTarget(r, targetSeries,
                    Min2(Len(r.seriesData[targetSeries].frames) - 1,
                         r.activeViewers[targetSeries].currentFrame + 1))
    ELSE r

ShowNextFrame(r, allowLoop, targetSeries) ==
    IF r.syncEnabled
    THEN LET maxFrames == Len(r.positionMap.positions)
             step == r.currentFrameIndex + 1
             newIndex == IF allowLoop
                         THEN (IF step >= maxFrames THEN 0 ELSE step)
                         ELSE Min2(maxFrames - 1, step)
         IN ShowFrame(r, newIndex, allowLoop, NoSeries)
    ELSE IF /\ targetSeries # NoSeries
            /\ targetSeries \in DOMAIN r.activeViewers
            /\ targetSeries \in DOMAIN r.seriesData
    THEN LET n == Len(r.seriesData[targetSeries].frames)
             step == r.activeViewers[targetSeries].currentFrame + 1
             newIndex == IF allowLoop
                         THEN (IF step >= n THEN 0 ELSE step)
                         ELSE Min2(n - 1, step)
         IN StepTarget(r, targetSeries, newIndex)
    ELSE r

\* ------------------------------------------------------------ viewers
NewViewer == [currentFrame |-> 0, currentPosition |-> 0]

\* createSeriesViewers: a fresh viewer object for every series of the catalog,
\* then showFrame(0, false).
CreateSeriesViewers(r) ==
    LET names == DOMAIN r.activeViewers \cup DOMAIN r.seriesData
        r1 == [r EXCEPT
                 !.activeViewers = [s \in names |->
                     IF s \in DOMAIN r.seriesData THEN NewViewer ELSE r.activeViewers[s]]]
    IN ShowFrame(r1, 0, FALSE, NoSeries)

\* handleSeriesSelect that also re-shows the selected series' frame.
HandleSeriesSelectNavigates(r, seriesName) ==
    IF ~r.syncEnabled /\ seriesName \in DOMAIN r.activeViewers
    THEN ShowFrame([r EXCEPT !.activeSeries = seriesName],
                   r.activeViewers[seriesName].currentFrame, FALSE, seriesName)
    ELSE r

\* handleSeriesSelect without its test of syncEnabled.
HandleSeriesSelectUnguarded(r, seriesName) ==
    LET r1 == [r EXCEPT !.activeSeries = seriesName]
    IN IF seriesName \in DOMAIN r.activeViewers
       THEN [r1 EXCEPT !.currentFrameIndex = r.activeViewers[seriesName].currentFrame,
                       !.currentPosition = r.activeViewers[seriesName].currentPosition]
       ELSE r1

\* handleSeriesSelect
HandleSeriesSelect(r, seriesName) ==
    IF ~r.syncEnabled
    THEN LET r1 == [r EXCEPT !.activeSeries = seriesName]
         IN IF seriesName \in DOMAIN r.activeViewers
            THEN [r1 EXCEPT !.currentFrameIndex = r.activeViewers[seriesName].currentFrame,
                            !.currentPosition = r.activeViewers[seriesName].currentPosition]
            ELSE r1
    ELSE r

\* clearExistingData: resets the fields (lastWheelTime and wheelDelta too,
\* see DidClear); it cancels no playback loop.
\* A clearExistingData that leaves the global cursor where it is.
ClearExistingDataKeepsCursor(r) ==
    [r EXCEPT !.seriesData = EmptyMap,
              !.activeViewers = EmptyMap,
              !.activeSeries = NoSeries,
              !.currentPosition = 0,
              !.isPlaying = FALSE,
              !.playInterval = "null",
              !.syncEnabled = TRUE,
              !.syncMode = "frame",
              !.positionMap = [positions |-> <<>>, series |-> EmptyMap],
              !.loops = [i \in DOMAIN @ |-> [@[i] EXCEPT !.referenced = FALSE]]]

ClearExistingData(r) ==
    [r EXCEPT !.seriesData = EmptyMap,
              !.activeViewers = EmptyMap,
              !.activeSeries = NoSeries,
              !.currentFrameIndex = 0,
              !.currentPosition = 0,
              !.isPlaying = FALSE,
              !.playInterval = "null",
              !.syncEnabled = TRUE,
              !.syncMode = "frame",
              !.positionMap = [positions |-> <<>>, series |-> EmptyMap],
              !.loops = [i \in DOMAIN @ |-> [@[i] EXCEPT !.referenced = FALSE]]]

\* ------------------------------------------------------------ playback
\* cancelAnimationFrame(this.playInterval): the loop whose pending callback
\* the handle names, if any, never runs again.
CancelReferenced(ls) == SelectSeq(ls, LAMBDA l : ~l.referenced)

\* stopPlayback that drops the handle without cancelling the callback.
StopPlaybackForgets(r) ==
    [r EXCEPT !.playInterval = "null"]

StopPlayback(r) ==
    IF r.playInterval # "null"
    THEN [r EXCEPT !.loops = CancelReferenced(@), !.playInterval = "null"]
    ELSE r

StartPlayback(r) ==
    LET r1 == IF r.playInterval # "null"
              THEN [r EXCEPT !.loops = CancelReferenced(@)]
              ELSE r
        maxFrames == Len(r.positionMap.positions)
    IN IF maxFrames = 0
       THEN StopPlayback(r1)
       ELSE [r1 EXCEPT !.loops = Append(@, [maxFrames |-> maxFrames, referenced |-> TRUE]),
                       !.playInterval = "set"]

TogglePlayback(r) ==
    LET r1 == [r EXCEPT !.isPlaying = ~@]
    IN IF r1.isPlaying THEN StartPlayback(r1) ELSE StopPlayback(r1)

\* The frame advance of one firing of framePlayback (elapsed >= delay);
\* maxFrames is the value startPlayback captured.
PlaybackAdvance(r, maxFrames) ==
    IF r.syncEnabled
    THEN IF r.currentFrameIndex >= maxFrames - 1
         THEN ShowFrame(r, 0, FALSE, NoSeries)
         ELSE ShowNextFrame(r, FALSE, NoSeries)
    ELSE IF r.activeSeries # NoSeries
    THEN IF r.activeViewers[r.activeSeries].currentFrame >= maxFrames - 1
         THEN ShowFrame(r, 0, FALSE, r.activeSeries)
         ELSE ShowNextFrame(r, FALSE, r.activeSeries)
    ELSE r

\* The loop re-registers itself: playInterval now names its pending callback.
Reschedule(r, i) ==
    [r EXCEPT !.loops = [j \in DOMAIN @ |-> [@[j] EXCEPT !.referenced = (j = i)]],
              !.playInterval = "set"]

RemoveAt(s, i) == SubSeq(s, 1, i - 1) \o SubSeq(s, i + 1, Len(s))

\* ------------------------------------------------------------- inputs
\* A file batch after grouping by detected label: the groups in order of
\* first appearance, each with its number of files.  The two labels are
\* interchangeable, so a batch of both lists T1 first.
Group(label, n) == [name |-> label, count |-> n]

Batches ==
    {<<Group(a, n)>> : a \in Labels, n \in 1..MaxFrames}
    \cup {<<Group("T1", n), Group("T2", m)>> : n \in 1..MaxFrames, m \in 1..MaxFrames}

\* The worked example: 5 T1WI files and 3 T2WI files selected together.
ExampleBatch == <<Group("T1", 5), Group("T2", 3)>>

\* The bound on work in flight.
Fits(r) == Len(r.loops) <= MaxLoops

\* The history variable: the handler that ran last and its allowLoop
\* argument (the checkbox's new value for setEnabled).  A handler outside
\* traced is recorded as "other".
\* The store of object URLs: those a frame of the catalog holds and those no
\* frame holds any more.  URLs of the same series and frame that were dropped
\* at different times are not told apart.
NoUrls(followed) == [followed |-> followed, held |-> {}, dropped |-> {}]

\* URL.createObjectURL for the n frames of a series.
CreateObjectUrls(store, label, n) ==
    IF store.followed
    THEN [store EXCEPT !.held = @ \cup {<<label, f>> : f \in 0..(n - 1)}]
    ELSE store

\* The series in labels are dropped from the catalog or overwritten.
DropSeries(store, labels) ==
    IF store.followed
    THEN [store EXCEPT !.held = {u \in @ : u[1] \notin labels},
                       !.dropped = @ \cup {u \in store.held : u[1] \in labels}]
    ELSE store

\* clearExistingData: URL.revokeObjectURL for every frame of the catalog.
RevokeObjectUrls(store) == [store EXCEPT !.held = {}]

\* The handlers that create, drop or revoke object URLs.
UrlHandlers == {"handleFileSelect", "processSeriesFiles", "loadFile",
                "loadFileFailed"}

Did(op, loop) ==
    /\ last' = IF op \in traced THEN [op |-> op, loop |-> loop]
                               ELSE [op |-> "other", loop |-> FALSE]
    /\ UNCHANGED traced
    /\ UNCHANGED sideVars
    /\ IF op \in UrlHandlers THEN TRUE ELSE UNCHANGED objectUrls

\* The same for a handler that runs clearExistingData, which also resets the
\* wheel throttle.
DidClear(op) ==
    /\ last' = IF op \in traced THEN [op |-> op, loop |-> FALSE]
                               ELSE [op |-> "other", loop |-> FALSE]
    /\ lastWheelTime' = 0
    /\ wheelDelta' = 0
    /\ UNCHANGED <<traced, now, delay, lastTime, advances, lastPaint, missedTick>>
    /\ UNCHANGED renderVars
    /\ imageCache' = {}
    /\ UNCHANGED <<loadResult, preloads>>
    /\ UNCHANGED <<input, output>>

Handlers ==
    {"handleFileSelect", "processSeriesFiles", "finishFileSelect", "loadFile",
     "loadFileFailed", "setModeFrame", "setModePosition", "setEnabled",
     "selectSeries", "showNextFrame", "showPreviousFrame", "showFrame",
     "togglePlayback", "setSpeed", "playbackTick", "clearView", "onOpen",
     "finishReload"}

PlaybackHandlers == {"togglePlayback", "setSpeed", "playbackTick", "setEnabled"}

\* Targets a caller can name: none, or a series that has a viewer.
Targets == {NoSeries} \cup DOMAIN activeViewers

\* ---------------------------------------------------------------- Init
\* The view after construction and its first onOpen, with no saved snapshot.
InitView ==
    /\ seriesData = EmptyMap
    /\ activeViewers = EmptyMap
    /\ positionMap = [positions |-> <<>>, series |-> EmptyMap]
    /\ currentFrameIndex = 0
    /\ currentPosition = 0
    /\ isPlaying = FALSE
    /\ playInterval = "null"
    /\ syncEnabled = TRUE
    /\ syncMode = "frame"
    /\ activeSeries = NoSeries
    /\ radioMode = "frame"
    /\ checkboxChecked = TRUE
    /\ visible = FALSE
    /\ savedSeriesData = EmptyMap
    /\ loadPhase = "idle"
    /\ pendingGroups = <<>>
    /\ switched = {}
    /\ loops = <<>>
    /\ last = [op |-> "other", loop |-> FALSE]

\* The timed parts before any playback: playbackSpeed = 5.
InitSide ==
    /\ now = 0
    /\ delay = 1000 \div 5
    /\ lastTime = 0
    /\ advances = 0
    /\ lastPaint = 0
    /\ missedTick = FALSE
    /\ lastWheelTime = 0
    /\ wheelDelta = 0
    /\ slots = EmptyMap
    /\ inflight = <<>>
    /\ inFrame = FALSE
    /\ imageCache = {}
    /\ loadResult = EmptyMap
    /\ preloads = <<>>
    /\ input = <<>>
    /\ output = <<>>
    /\ objectUrls = NoUrls(FALSE)

Init == InitView /\ InitSide /\ traced = Handlers

\* ------------------------------------------------------------- actions
\* handleFileSelect up to its first suspension: the old catalog is dropped.
HandleFileSelect(batch) ==
    /\ loadPhase = "idle"
    /\ Commit([This EXCEPT !.seriesData = EmptyMap,
                           !.activeViewers = EmptyMap,
                                        !.activeSeries = NoSeries])
    /\ pendingGroups' = batch
    /\ loadPhase' = "batch"
    /\ objectUrls' = DropSeries(objectUrls, DOMAIN seriesData)
    /\ Did("handleFileSelect", FALSE)
    /\ UNCHANGED <<radioMode, checkboxChecked, visible, savedSeriesData>>

\* processSeriesFiles resumes after its preloads: the series is stored and
\* the position index rebuilt.
ProcessSeriesFiles ==
    /\ loadPhase = "batch"
    /\ pendingGroups # <<>>
    /\ LET g == Head(pendingGroups)
           r1 == [This EXCEPT !.seriesData =
                     [s \in DOMAIN @ \cup {g.name} |->
                         IF s = g.name THEN BatchSeries(g.count) ELSE @[s]]]
       IN Commit(CreatePositionMap(r1))
    /\ pendingGroups' = Tail(pendingGroups)
    /\ objectUrls' = CreateObjectUrls(objectUrls, Head(pendingGroups).name,
                                      Head(pendingGroups).count)
    /\ Did("processSeriesFiles", FALSE)
    /\ UNCHANGED <<radioMode, checkboxChecked, visible, savedSeriesData,
                   loadPhase>>

\* The rest of handleFileSelect: the snapshot is saved, the viewers are built
\* and frame 0 is shown.
FinishFileSelect ==
    /\ loadPhase = "batch"
    /\ pendingGroups = <<>>
    /\ savedSeriesData' = seriesData
    /\ visible' = TRUE
    /\ Commit(ShowFrame(CreateSeriesViewers(This), 0, FALSE, NoSeries))
    /\ loadPhase' = "idle"
    /\ Did("finishFileSelect", FALSE)
    /\ UNCHANGED <<radioMode, checkboxChecked, pendingGroups>>

\* loadFile storing its series although the read failed.
LoadFileKeepsPartial(label, readOk) ==
    /\ loadPhase = "idle"
    /\ Commit([This EXCEPT !.seriesData =
                  [s \in DOMAIN @ \cup {label} |->
                      IF s = label THEN SingletonSeries ELSE @[s]]])
    /\ objectUrls' = IF readOk
                     THEN CreateObjectUrls(DropSeries(objectUrls, {label}), label, 1)
                     ELSE objectUrls
    /\ Did(IF readOk THEN "loadFile" ELSE "loadFileFailed", FALSE)
    /\ UNCHANGED <<radioMode, checkboxChecked, visible, savedSeriesData,
                   loadPhase, pendingGroups>>

\* loadFile: a failed read is caught and changes nothing.
LoadFile(label, readOk) ==
    /\ loadPhase = "idle"
    /\ IF readOk
       THEN /\ LET r1 == [This EXCEPT !.seriesData =
                            [s \in DOMAIN @ \cup {label} |->
                                IF s = label THEN SingletonSeries ELSE @[s]]]
               IN Commit(ShowFrame(CreateSeriesViewers(r1), 0, FALSE, NoSeries))
            /\ visible' = TRUE
       ELSE Commit(This) /\ UNCHANGED visible
    /\ objectUrls' = IF readOk
                     THEN CreateObjectUrls(DropSeries(objectUrls, {label}), label, 1)
                     ELSE objectUrls
    /\ Did(IF readOk THEN "loadFile" ELSE "loadFileFailed", FALSE)
    /\ UNCHANGED <<radioMode, checkboxChecked, savedSeriesData,
                   loadPhase, pendingGroups>>

\* The frame radio handler re-showing the current index instead of the
\* minimum currentFrame.
FrameRadioKeepsIndex ==
    /\ visible
    /\ radioMode # "frame"
    /\ radioMode' = "frame"
    /\ LET r1 == [This EXCEPT !.syncMode = "frame"]
           r2 == IF r1.syncEnabled
                 THEN ShowFrame(r1, r1.currentFrameIndex, FALSE, NoSeries)
                 ELSE r1
       IN Fits(r2) /\ Commit(r2)
    /\ Did("setModeFrame", FALSE)
    /\ UNCHANGED <<checkboxChecked, visible, savedSeriesData,
                   loadPhase, pendingGroups>>

\* The "sync frame index" radio button becomes checked.
FrameRadioChange ==
    /\ visible
    /\ radioMode # "frame"
    /\ radioMode' = "frame"
    /\ LET r1 == [This EXCEPT !.syncMode = "frame"]
           minFrameIndex == MathMin({activeViewers[s].currentFrame : s \in DOMAIN activeViewers})
           r2 == IF r1.syncEnabled
                 THEN ShowFrame([r1 EXCEPT !.currentFrameIndex = minFrameIndex],
                                minFrameIndex, FALSE, NoSeries)
                 ELSE r1
       IN Fits(r2) /\ Commit(r2)
    /\ Did("setModeFrame", FALSE)
    /\ UNCHANGED <<checkboxChecked, visible, savedSeriesData,
                   loadPhase, pendingGroups>>

\* The "sync anatomical position" radio button becomes checked.
PositionRadioChange ==
    /\ visible
    /\ radioMode # "position"
    /\ radioMode' = "position"
    /\ LET r1 == [This EXCEPT !.syncMode = "position"]
           minPosition == MathMin({activeViewers[s].currentPosition : s \in DOMAIN activeViewers})
           r2 == IF r1.syncEnabled
                 THEN ShowFrame([r1 EXCEPT !.currentPosition = minPosition],
                                r1.currentFrameIndex, FALSE, NoSeries)
                 ELSE r1
       IN Fits(r2) /\ Commit(r2)
    /\ Did("setModePosition", FALSE)
    /\ UNCHANGED <<checkboxChecked, visible, savedSeriesData,
                   loadPhase, pendingGroups>>

\* The "enable sync" checkbox is toggled.
SyncCheckboxChange ==
    /\ visible
    /\ checkboxChecked' = ~checkboxChecked
    /\ LET r1 == [This EXCEPT !.syncEnabled = ~checkboxChecked]
           minFrameIndex == MathMin({activeViewers[s].currentFrame : s \in DOMAIN activeViewers})
           r2 == IF r1.syncEnabled
                 THEN ShowFrame([r1 EXCEPT !.activeSeries = NoSeries,
                                           !.currentFrameIndex = minFrameIndex],
                                minFrameIndex, FALSE, NoSeries)
                 ELSE r1
       IN Fits(r2) /\ Commit(r2)
    /\ Did("setEnabled", ~checkboxChecked)
    /\ UNCHANGED <<radioMode, visible, savedSeriesData,
                   loadPhase, pendingGroups>>

\* A click on a viewer.
SeriesClick(seriesName) ==
    /\ visible
    /\ seriesName \in DOMAIN activeViewers
    /\ Commit(HandleSeriesSelect(This, seriesName))
    /\ Did("selectSeries", FALSE)
    /\ UNCHANGED <<radioMode, checkboxChecked, visible, savedSeriesData,
                   loadPhase, pendingGroups>>

\* showNextFrame(allowLoop, targetSeries): the arrow key and the button pass
\* (true, syncEnabled ? null : activeSeries), the wheel (true, series under
\* the pointer).
NextFrame(allowLoop, targetSeries) ==
    /\ targetSeries \in Targets
    /\ LET r == ShowNextFrame(This, allowLoop, targetSeries)
       IN Fits(r) /\ Commit(r)
    /\ Did("showNextFrame", allowLoop)
    /\ UNCHANGED <<radioMode, checkboxChecked, visible, savedSeriesData,
                   loadPhase, pendingGroups>>

\* showPreviousFrame(allowLoop, targetSeries).
PreviousFrame(allowLoop, targetSeries) ==
    /\ targetSeries \in Targets
    /\ LET r == ShowPreviousFrame(This, allowLoop, targetSeries)
       IN Fits(r) /\ Commit(r)
    /\ Did("showPreviousFrame", allowLoop)
    /\ UNCHANGED <<radioMode, checkboxChecked, visible, savedSeriesData,
                   loadPhase, pendingGroups>>

\* The frame slider is moved: showFrame(value - 1).
SliderInput(frameIndex) ==
    /\ visible
    /\ frameIndex \in 0..Len(positionMap.positions)
    /\ LET r == ShowFrame(This, frameIndex, FALSE, NoSeries)
       IN Fits(r) /\ Commit(r)
    /\ Did("showFrame", FALSE)
    /\ UNCHANGED <<radioMode, checkboxChecked, visible, savedSeriesData,
                   loadPhase, pendingGroups>>

\* The play/pause button.
PlayPauseClick ==
    /\ visible
    /\ LET r == TogglePlayback(This)
       IN Fits(r) /\ Commit(r)
    /\ Did("togglePlayback", FALSE)
    /\ UNCHANGED <<radioMode, checkboxChecked, visible, savedSeriesData,
                   loadPhase, pendingGroups>>

\* The speed slider: while playing, stop then start.
SpeedInput ==
    /\ visible
    /\ LET r == IF isPlaying THEN StartPlayback(StopPlayback(This)) ELSE This
       IN Fits(r) /\ Commit(r)
    /\ Did("setSpeed", FALSE)
    /\ UNCHANGED <<radioMode, checkboxChecked, visible, savedSeriesData,
                   loadPhase, pendingGroups>>

\* One run of framePlayback, the paint callback of loop i.  fire says whether
\* a whole interval has elapsed.  A loop that finds isPlaying false, or whose
\* callback throws on a missing viewer, does not register itself again.
PlaybackTick(i, fire) ==
    /\ i \in DOMAIN loops
    /\ IF ~isPlaying \/ (fire /\ ~syncEnabled /\ activeSeries # NoSeries
                              /\ activeSeries \notin DOMAIN activeViewers)
       THEN /\ Commit([This EXCEPT !.loops = RemoveAt(@, i)])
            /\ UNCHANGED <<last, traced, sideVars, objectUrls>>
       ELSE IF fire
       THEN /\ LET r == Reschedule(PlaybackAdvance(This, loops[i].maxFrames), i)
               IN Fits(r) /\ Commit(r)
            /\ Did("playbackTick", FALSE)
       ELSE /\ Commit(Reschedule(This, i))
            /\ UNCHANGED <<last, traced, sideVars, objectUrls>>
    /\ UNCHANGED <<radioMode, checkboxChecked, visible, savedSeriesData,
                   loadPhase, pendingGroups>>

\* plugin.clearSavedData: the snapshot is dropped and the view cleared.
\* loadSavedSeriesData: URL.createObjectURL for every saved frame.
SavedObjectUrls(store, saved) ==
    IF store.followed
    THEN [store EXCEPT !.held = @ \cup UNION {
             {<<l, f>> : f \in 0..(Len(saved[l].frames) - 1)} : l \in DOMAIN saved}]
    ELSE store

ClearSavedData ==
    /\ savedSeriesData' = EmptyMap
    /\ Commit(ClearExistingData(This))
    /\ visible' = FALSE
    /\ objectUrls' = RevokeObjectUrls(objectUrls)
    /\ DidClear("clearView")
    /\ UNCHANGED <<radioMode, checkboxChecked, loadPhase, pendingGroups>>

\* The view is closed and opened again.  onClose clears the view; the host
\* then builds a new view object (every field at its constructor value, a new
\* layout) and calls onOpen, whose createView loads the snapshot if the
\* plugin holds one.  This is loadSavedSeriesData up to its suspension.
Reopen ==
    /\ loadPhase # "batch"
    /\ LET r == [ClearExistingData(This) EXCEPT !.loops = <<>>]
       IN Commit([r EXCEPT !.seriesData = savedSeriesData])
    /\ loadPhase' = IF DOMAIN savedSeriesData # {} THEN "reload" ELSE "idle"
    /\ radioMode' = "frame"
    /\ checkboxChecked' = TRUE
    /\ visible' = FALSE
    /\ objectUrls' = SavedObjectUrls(RevokeObjectUrls(objectUrls), savedSeriesData)
    /\ DidClear("onOpen")
    /\ UNCHANGED <<savedSeriesData, pendingGroups>>

\* The rest of loadSavedSeriesData, once the images have loaded.
FinishReload ==
    /\ loadPhase = "reload"
    /\ Commit(ShowFrame(CreateSeriesViewers(CreatePositionMap(This)), 0, FALSE, NoSeries))
    /\ visible' = TRUE
    /\ loadPhase' = "idle"
    /\ Did("finishReload", FALSE)
    /\ UNCHANGED <<radioMode, checkboxChecked, savedSeriesData, pendingGroups>>

Next ==
    \/ \E batch \in Batches : HandleFileSelect(batch)
    \/ ProcessSeriesFiles
    \/ FinishFileSelect
    \/ \E label \in Labels, readOk \in BOOLEAN : LoadFile(label, readOk)
    \/ FrameRadioChange
    \/ PositionRadioChange
    \/ SyncCheckboxChange
    \/ \E s \in Labels : SeriesClick(s)
    \/ \E allowLoop \in BOOLEAN, t \in Labels \cup {NoSeries} : NextFrame(allowLoop, t)
    \/ \E allowLoop \in BOOLEAN, t \in Labels \cup {NoSeries} : PreviousFrame(allowLoop, t)
    \/ \E i \in 0..MaxFrames : SliderInput(i)
    \/ ClearSavedData
    \/ Reopen
    \/ FinishReload

Spec == Init /\ [][Next]_vars

\* ------------------------------------------------ playback specification
\* The arrow keys and the previous/next buttons:
\* showNextFrame(true, syncEnabled ? null : activeSeries).
KeyNext == NextFrame(TRUE, IF syncEnabled THEN NoSeries ELSE activeSeries)

KeyPrevious == PreviousFrame(TRUE, IF syncEnabled THEN NoSeries ELSE activeSeries)

\* The controller with its playback scheduler: file batches, the sync
\* options, series selection, the keys and buttons, the slider, play/pause,
\* the speed slider and the playback loops.
NextPlay ==
    \/ \E batch \in Batches : HandleFileSelect(batch)
    \/ ProcessSeriesFiles
    \/ FinishFileSelect
    \/ FrameRadioChange
    \/ PositionRadioChange
    \/ SyncCheckboxChange
    \/ \E s \in Labels : SeriesClick(s)
    \/ KeyNext
    \/ KeyPrevious
    \/ \E i \in 0..MaxFrames : SliderInput(i)
    \/ PlayPauseClick
    \/ SpeedInput
    \/ \E i \in 1..MaxLoops, fire \in BOOLEAN : PlaybackTick(i, fire)

InitPlay == InitView /\ InitSide /\ traced = PlaybackHandlers

SpecPlay == InitPlay /\ [][NextPlay]_vars

\* ------------------------------------------------- example specification
\* The worked example: the T1WI/T2WI batch is loaded and then browsed with
\* the sync options, the keys and buttons and the slider.
NextExample ==
    \/ HandleFileSelect(ExampleBatch)
    \/ ProcessSeriesFiles
    \/ FinishFileSelect
    \/ FrameRadioChange
    \/ PositionRadioChange
    \/ SyncCheckboxChange
    \/ \E s \in Labels : SeriesClick(s)
    \/ KeyNext
    \/ KeyPrevious
    \/ \E i \in 0..ExampleBatch[1].count : SliderInput(i)

SpecExample == Init /\ [][NextExample]_vars

\* The worked example with playback: the batch is loaded, sync is switched,
\* a series is selected and the sequence is played.
NextExamplePlay ==
    \/ HandleFileSelect(ExampleBatch)
    \/ ProcessSeriesFiles
    \/ FinishFileSelect
    \/ SyncCheckboxChange
    \/ \E s \in Labels : SeriesClick(s)
    \/ PlayPauseClick
    \/ \E i \in 1..MaxLoops, fire \in BOOLEAN : PlaybackTick(i, fire)

SpecExamplePlay == InitPlay /\ [][NextExamplePlay]_vars

\* -------------------------------------------------- loops specification
\* Playback against the operations that drop the playing flag without
\* cancelling the loop: one series is loaded, played, paused, its speed
\* changed and the saved data cleared.
NextLoops ==
    \/ \E n \in 1..MaxFrames : HandleFileSelect(<<Group("T1", n)>>)
    \/ ProcessSeriesFiles
    \/ FinishFileSelect
    \/ PlayPauseClick
    \/ SpeedInput
    \/ \E i \in 1..MaxLoops, fire \in BOOLEAN : PlaybackTick(i, fire)
    \/ ClearSavedData

SpecLoops == InitPlay /\ [][NextLoops]_vars

\* ------------------------------------------------- pacing specification
\* The playback speeds with a whole number of milliseconds per frame that
\* the model draws from the speed slider's range 1..10.
Speeds == {5, 10}

\* A series of MaxFrames frames has been loaded and play pressed at time 0:
\* startPlayback has set delay and lastTime and registered framePlayback.
InitPacing ==
    /\ seriesData = [s \in {"T1"} |-> BatchSeries(MaxFrames)]
    /\ activeViewers = [s \in {"T1"} |-> NewViewer]
    /\ positionMap = [positions |-> BatchPositions(MaxFrames),
                      series |-> [s \in {"T1"} |-> SeriesIndex(BatchPositions(MaxFrames))]]
    /\ currentFrameIndex = 0
    /\ currentPosition = 0
    /\ isPlaying = TRUE
    /\ playInterval = "set"
    /\ syncEnabled = TRUE
    /\ syncMode = "frame"
    /\ activeSeries = NoSeries
    /\ radioMode = "frame"
    /\ checkboxChecked = TRUE
    /\ visible = TRUE
    /\ savedSeriesData = seriesData
    /\ loadPhase = "idle"
    /\ pendingGroups = <<>>
    /\ switched = {}
    /\ loops = <<[maxFrames |-> MaxFrames, referenced |-> TRUE]>>
    /\ last = [op |-> "togglePlayback", loop |-> FALSE]
    /\ traced = PlaybackHandlers
    /\ now = 0
    /\ delay \in {1000 \div speed : speed \in Speeds}
    /\ lastTime = 0
    /\ advances = 0
    /\ lastPaint = 0
    /\ missedTick = FALSE
    /\ lastWheelTime = 0
    /\ wheelDelta = 0
    /\ slots = EmptyMap
    /\ inflight = <<>>
    /\ inFrame = FALSE
    /\ imageCache = {}
    /\ loadResult = EmptyMap
    /\ preloads = <<>>
    /\ input = <<>>
    /\ output = <<>>
    /\ objectUrls = NoUrls(FALSE)

\* Time passes.
TimePasses ==
    /\ now + Step <= MaxTime
    /\ now' = now + Step
    /\ UNCHANGED <<seriesData, activeViewers, positionMap, currentFrameIndex,
                   currentPosition, isPlaying, playInterval, syncEnabled, syncMode,
                   activeSeries, radioMode, checkboxChecked, visible,
                   savedSeriesData, loadPhase, pendingGroups, switched, loops,
                   last, traced, delay, lastTime, advances, lastPaint, missedTick,
                   lastWheelTime, wheelDelta, slots, inflight, inFrame,
                   imageCache, loadResult, preloads>>
    /\ UNCHANGED pureVars

\* framePlayback that restarts its interval at the time of the fire.
FramePlaybackResets ==
    /\ isPlaying
    /\ loops # <<>>
    /\ lastPaint < now
    /\ IF now - lastTime >= delay
       THEN /\ lastTime' = now
            /\ advances' = advances + 1
            /\ Commit(Reschedule(PlaybackAdvance(This, loops[1].maxFrames), 1))
            /\ last' = [op |-> "playbackTick", loop |-> FALSE]
       ELSE /\ Commit(Reschedule(This, 1))
            /\ UNCHANGED <<lastTime, advances, last>>
    /\ lastPaint' = now
    /\ missedTick' = (missedTick \/ now - lastPaint > delay)
    /\ UNCHANGED <<radioMode, checkboxChecked, visible, savedSeriesData,
                   loadPhase, pendingGroups, traced, now, delay,
                   lastWheelTime, wheelDelta, slots, inflight, inFrame,
                   imageCache, loadResult, preloads>>
    /\ UNCHANGED pureVars

\* framePlayback(time) run by the paint callback at time now, once per
\* paint: it fires when a whole delay has elapsed since lastTime.
FramePlayback ==
    /\ isPlaying
    /\ loops # <<>>
    /\ lastPaint < now
    /\ LET elapsed == now - lastTime
       IN IF elapsed >= delay
          THEN /\ lastTime' = now - (elapsed % delay)
               /\ advances' = advances + 1
               /\ Commit(Reschedule(PlaybackAdvance(This, loops[1].maxFrames), 1))
               /\ last' = [op |-> "playbackTick", loop |-> FALSE]
          ELSE /\ Commit(Reschedule(This, 1))
               /\ UNCHANGED <<lastTime, advances, last>>
    /\ lastPaint' = now
    /\ missedTick' = (missedTick \/ now - lastPaint > delay)
    /\ UNCHANGED <<radioMode, checkboxChecked, visible, savedSeriesData,
                   loadPhase, pendingGroups, traced, now, delay,
                   lastWheelTime, wheelDelta, slots, inflight, inFrame,
                   imageCache, loadResult, preloads>>
    /\ UNCHANGED pureVars

NextPacing ==
    \/ TimePasses
    \/ FramePlayback

SpecPacing == InitPacing /\ [][NextPacing]_vars

\* -------------------------------------------------- wheel specification
\* The milliseconds between two wheel events, and the deltaY of an event.
WheelGaps == {10, 20, 30}

WheelDeltas == {0 - 40, 0 - 20, 0 - 10, 10, 20, 40}

Abs(x) == IF x < 0 THEN 0 - x ELSE x

\* The throttle: the event at time t passes when the last accepted one was
\* at least WheelInterval earlier.
WheelAlwaysAccepted(t, lastAccepted) == TRUE

WheelAccepted(t, lastAccepted) == ~(t - lastAccepted < WheelInterval)

\* The accumulated deltaY that issues a navigation.
WheelCrossesAt(sum) == Abs(sum) >= WheelThreshold

WheelCrosses(sum) == Abs(sum) > WheelThreshold

\* handleWheelScroll(event, seriesName) for a wheel event over the viewer of
\* seriesName, gap milliseconds after the previous wheel event.
HandleWheelScroll(gap, deltaY, seriesName) ==
    /\ visible
    /\ seriesName \in DOMAIN activeViewers
    /\ now + gap <= MaxWheelTime
    /\ now' = now + gap
    /\ IF ~WheelAccepted(now', lastWheelTime)
       THEN /\ Commit(This)
            /\ UNCHANGED <<lastWheelTime, wheelDelta>>
            /\ last' = [op |-> "wheelDropped", loop |-> FALSE]
       ELSE /\ lastWheelTime' = now'
            /\ IF WheelCrosses(wheelDelta + deltaY)
               THEN /\ Commit(IF wheelDelta + deltaY > 0
                              THEN ShowNextFrame(This, TRUE, seriesName)
                              ELSE ShowPreviousFrame(This, TRUE, seriesName))
                    /\ wheelDelta' = 0
                    /\ last' = [op |-> "wheelStep", loop |-> TRUE]
               ELSE /\ Commit(This)
                    /\ wheelDelta' = wheelDelta + deltaY
                    /\ last' = [op |-> "wheelAccepted", loop |-> FALSE]
    /\ UNCHANGED <<radioMode, checkboxChecked, visible, savedSeriesData,
                   loadPhase, pendingGroups, traced,
                   delay, lastTime, advances, lastPaint, missedTick,
                   slots, inflight, inFrame,
                   imageCache, loadResult, preloads>>
    /\ UNCHANGED pureVars

\* The view when the first wheel event can arrive: Date.now() is past the
\* first WheelInterval milliseconds.
InitWheel ==
    /\ InitView
    /\ traced = Handlers
    /\ now = WheelInterval
    /\ delay = 1000 \div 5
    /\ lastTime = 0
    /\ advances = 0
    /\ lastPaint = 0
    /\ missedTick = FALSE
    /\ lastWheelTime = 0
    /\ wheelDelta = 0
    /\ slots = EmptyMap
    /\ inflight = <<>>
    /\ inFrame = FALSE
    /\ imageCache = {}
    /\ loadResult = EmptyMap
    /\ preloads = <<>>
    /\ input = <<>>
    /\ output = <<>>
    /\ objectUrls = NoUrls(FALSE)

\* A batch of two series is loaded, sync is switched on and off, and the
\* wheel is turned over the viewers.
NextWheel ==
    \/ \E n \in 1..MaxFrames : HandleFileSelect(<<Group("T1", MaxFrames), Group("T2", n)>>)
    \/ ProcessSeriesFiles
    \/ FinishFileSelect
    \/ SyncCheckboxChange
    \/ \E gap \in WheelGaps, deltaY \in WheelDeltas, s \in Labels :
          HandleWheelScroll(gap, deltaY, s)

SpecWheel == InitWheel /\ [][NextWheel]_vars

\* ------------------------------------------------- render specification
\* The two image elements of a new viewer: images[0] shows the first frame at
\* opacity 1 with class active, images[1] has no source and class inactive
\* (opacity 0); currentActive is 0.
NewSlots ==
    [currentActive |-> 0,
     src |-> <<0, Undefined>>,
     opacity |-> <<1, 0>>,
     active |-> <<TRUE, FALSE>>]

\* for (const seriesName in this.activeViewers): the viewers in the order
\* createSeriesViewers made them.
ViewerOrder == <<"T1", "T2">>

\* The transition switchImage starts on the viewer for a cached frame:
\* nextActive is computed from the viewer's currentActive at the call, and the
\* first paint callback is requested.  paints and painted are history: the
\* paint boundaries since the call, and whether one of them showed the
\* incoming image element at opacity 1.
NewTransition(sl, v, frame) ==
    [viewer |-> v, frame |-> frame,
     nextActive |-> (sl[v].currentActive + 1) % 2,
     stage |-> "raf1", due |-> FALSE, paints |-> 0, painted |-> FALSE]

Incoming(tr) == tr.nextActive + 1

Outgoing(tr) == ((tr.nextActive + 1) % 2) + 1

\* The locator of frame f of series v.
Url(v, f) == <<v, f>>

\* A cache test that finds nothing.
NeverReady(cache, url) == FALSE

\* this.imageCache[frameUrl] && this.imageCache[frameUrl].complete: an image
\* enters the cache after its load event, so a cached image is complete.
IsReady(cache, url) == url \in cache

\* The frame whose locator switchImage is called with for viewer v by a
\* handler whose result is r.
Requested(r, v) == Url(v, r.activeViewers[v].currentFrame)

\* A preloadImage call that has started a load: phase is "loading" until the
\* load or error event and "decoding" until decode() settles; cont is what
\* waits for the promise ("switch": switchImage retries with the captured
\* nextActive, "batch": processSeriesFiles, "none"); gen alternates with
\* each retry.
NewPreload(url, cont, nextActive) ==
    [url |-> url, phase |-> "loading", gen |-> 0, cont |-> cont,
     nextActive |-> nextActive]

\* The switchImage calls of a handler whose result is r: for a cached frame
\* nextImage.src is written at once.
StartedSlots(sl, r) ==
    [v \in DOMAIN sl |->
        IF v \in r.switched /\ IsReady(imageCache, Requested(r, v))
        THEN [sl[v] EXCEPT !.src[Incoming(NewTransition(sl, v, 0))]
                               = r.activeViewers[v].currentFrame]
        ELSE sl[v]]

StartedTransitions(sl, r) ==
    LET req == SelectSeq(ViewerOrder,
                         LAMBDA v : v \in r.switched /\ IsReady(imageCache, Requested(r, v)))
    IN [k \in 1..Len(req) |->
           NewTransition(sl, req[k], r.activeViewers[req[k]].currentFrame)]

\* For a frame that is not cached switchImage calls preloadImage and retries
\* when it resolves.
StartedPreloads(sl, r) ==
    LET req == SelectSeq(ViewerOrder,
                         LAMBDA v : v \in r.switched /\ ~IsReady(imageCache, Requested(r, v)))
    IN [k \in 1..Len(req) |->
           NewPreload(Requested(r, req[k]), "switch", NewTransition(sl, req[k], 0).nextActive)]

\* The second paint callback of a transition that leaves the outgoing image
\* element visible.
OpacitySwapKeepsOutgoing(sl, tr) ==
    [sl EXCEPT ![tr.viewer].opacity[Incoming(tr)] = 1]

\* The second paint callback of a transition: nextImage.style.opacity = '1',
\* currentImage.style.opacity = '0'.
OpacitySwap(sl, tr) ==
    [sl EXCEPT ![tr.viewer].opacity[Incoming(tr)] = 1,
               ![tr.viewer].opacity[Outgoing(tr)] = 0]

\* The setTimeout callback of a transition that forgets currentActive.
ClassSwapKeepsPointer(sl, tr) ==
    [sl EXCEPT ![tr.viewer].active[Outgoing(tr)] = FALSE,
               ![tr.viewer].active[Incoming(tr)] = TRUE]

\* The setTimeout callback of a transition: the classes are exchanged and
\* the viewer's currentActive is set.
ClassSwap(sl, tr) ==
    [sl EXCEPT ![tr.viewer].active[Outgoing(tr)] = FALSE,
               ![tr.viewer].active[Incoming(tr)] = TRUE,
               ![tr.viewer].currentActive = tr.nextActive]

controllerVars ==
    <<seriesData, activeViewers, positionMap, currentFrameIndex,
      currentPosition, isPlaying, playInterval, syncEnabled, syncMode,
      activeSeries, radioMode, checkboxChecked, visible, savedSeriesData,
      loadPhase, pendingGroups, switched, loops, last, traced,
      now, delay, lastTime, advances, lastPaint, missedTick,
      lastWheelTime, wheelDelta>>

\* The next or previous button is clicked (delta 1 or -1) between two
\* frames: showNextFrame(true, t) or showPreviousFrame(true, t) with the
\* transitions it starts.
Navigate(delta, t) ==
    /\ ~inFrame
    /\ t = IF syncEnabled THEN NoSeries ELSE activeSeries
    /\ LET r == IF delta = 1 THEN ShowNextFrame(This, TRUE, t)
                             ELSE ShowPreviousFrame(This, TRUE, t)
       IN /\ Len(inflight) + Len(preloads) + Cardinality(r.switched) <= MaxInflight
          /\ Commit(r)
          /\ slots' = StartedSlots(slots, r)
          /\ inflight' = inflight \o StartedTransitions(slots, r)
          /\ preloads' = preloads \o StartedPreloads(slots, r)
    /\ last' = [op |-> IF delta = 1 THEN "showNextFrame" ELSE "showPreviousFrame",
                loop |-> TRUE]
    /\ UNCHANGED <<radioMode, checkboxChecked, visible, savedSeriesData,
                   loadPhase, pendingGroups, traced, now, delay, lastTime,
                   advances, lastPaint, missedTick, lastWheelTime, wheelDelta,
                   inFrame, imageCache, loadResult>>
    /\ UNCHANGED pureVars

\* A frame begins: the paint callbacks requested so far are the ones it runs.
FrameBegins ==
    /\ ~inFrame
    /\ \E k \in DOMAIN inflight : inflight[k].stage \in {"raf1", "raf2"}
    /\ inFrame' = TRUE
    /\ inflight' = [k \in DOMAIN inflight |->
                       [inflight[k] EXCEPT !.due = inflight[k].stage \in {"raf1", "raf2"}]]
    /\ UNCHANGED slots
    /\ UNCHANGED controllerVars
    /\ UNCHANGED cacheVars
    /\ UNCHANGED pureVars

\* The oldest paint callback of the frame runs: the first one requests the
\* second, the second exchanges the opacities and sets the timer.
RunCallback ==
    /\ inFrame
    /\ \E k \in DOMAIN inflight :
          /\ inflight[k].due
          /\ \A j \in 1..(k - 1) : ~inflight[j].due
          /\ IF inflight[k].stage = "raf1"
             THEN /\ inflight' = [inflight EXCEPT ![k].stage = "raf2", ![k].due = FALSE]
                  /\ UNCHANGED slots
             ELSE /\ inflight' = [inflight EXCEPT ![k].stage = "timeout", ![k].due = FALSE]
                  /\ slots' = OpacitySwap(slots, inflight[k])
    /\ UNCHANGED inFrame
    /\ UNCHANGED controllerVars
    /\ UNCHANGED cacheVars
    /\ UNCHANGED pureVars

\* The frame's callbacks have run and the frame is painted.
Paint ==
    /\ inFrame
    /\ \A k \in DOMAIN inflight : ~inflight[k].due
    /\ inFrame' = FALSE
    /\ inflight' = [k \in DOMAIN inflight |->
                       [inflight[k] EXCEPT
                          !.paints = Min2(@ + 1, 2),
                          !.painted = @ \/ slots[inflight[k].viewer].opacity[Incoming(inflight[k])] = 1]]
    /\ UNCHANGED slots
    /\ UNCHANGED controllerVars
    /\ UNCHANGED cacheVars
    /\ UNCHANGED pureVars

\* The oldest timer set by a transition fires; the transition resolves.
TimerFires ==
    /\ ~inFrame
    /\ \E k \in DOMAIN inflight :
          /\ inflight[k].stage = "timeout"
          /\ \A j \in 1..(k - 1) : inflight[j].stage # "timeout"
          /\ slots' = ClassSwap(slots, inflight[k])
          /\ inflight' = RemoveAt(inflight, k)
    /\ UNCHANGED inFrame
    /\ UNCHANGED controllerVars
    /\ UNCHANGED cacheVars
    /\ UNCHANGED pureVars

\* Two series of MaxFrames frames have been loaded together (every image is
\* in the cache), Synced or Unsynced with T1 selected.
InitRender ==
    /\ seriesData = [s \in Labels |-> BatchSeries(MaxFrames)]
    /\ activeViewers = [s \in Labels |-> NewViewer]
    /\ positionMap = [positions |-> BatchPositions(MaxFrames),
                      series |-> [s \in Labels |-> SeriesIndex(BatchPositions(MaxFrames))]]
    /\ currentFrameIndex = 0
    /\ currentPosition = 0
    /\ isPlaying = FALSE
    /\ playInterval = "null"
    /\ syncEnabled \in BOOLEAN
    /\ syncMode = "frame"
    /\ activeSeries = IF syncEnabled THEN NoSeries ELSE "T1"
    /\ radioMode = "frame"
    /\ checkboxChecked = syncEnabled
    /\ visible = TRUE
    /\ savedSeriesData = seriesData
    /\ loadPhase = "idle"
    /\ pendingGroups = <<>>
    /\ switched = {}
    /\ loops = <<>>
    /\ last = [op |-> "finishFileSelect", loop |-> FALSE]
    /\ traced = Handlers
    /\ now = 0
    /\ delay = 1000 \div 5
    /\ lastTime = 0
    /\ advances = 0
    /\ lastPaint = 0
    /\ missedTick = FALSE
    /\ lastWheelTime = 0
    /\ wheelDelta = 0
    /\ slots = [s \in Labels |-> NewSlots]
    /\ inflight = <<>>
    /\ inFrame = FALSE
    /\ imageCache = {Url(s, f) : s \in Labels, f \in 0..(MaxFrames - 1)}
    /\ loadResult = [u \in imageCache |-> "ok"]
    /\ preloads = <<>>
    /\ input = <<>>
    /\ output = <<>>
    /\ objectUrls = NoUrls(FALSE)

NextRender ==
    \/ \E t \in Labels \cup {NoSeries} : Navigate(1, t)
    \/ \E t \in Labels \cup {NoSeries} : Navigate(0 - 1, t)
    \/ FrameBegins
    \/ RunCallback
    \/ Paint
    \/ TimerFires

SpecRender == InitRender /\ [][NextRender]_vars

\* ------------------------------------------------ preload specification
\* How the load of an image can end: load and decode succeed, the load
\* succeeds and decode() rejects, the load fails (error event).
LoadResults == {"ok", "decodeFails", "loadFails"}

\* The promise of preloads[k] resolves with the cache as given and what
\* waits for it runs: switchImage is called again with the same arguments.
Resolve(k, cache) ==
    LET pl == preloads[k]
        rest == RemoveAt(preloads, k)
        v == pl.url[1]
        tr == [NewTransition(slots, v, pl.url[2]) EXCEPT !.nextActive = pl.nextActive]
    IN IF pl.cont # "switch"
       THEN /\ preloads' = rest
            /\ UNCHANGED <<slots, inflight>>
       ELSE IF IsReady(cache, pl.url)
       THEN /\ preloads' = rest
            /\ slots' = [slots EXCEPT ![v].src[Incoming(tr)] = pl.url[2]]
            /\ inflight' = Append(inflight, tr)
       ELSE /\ preloads' = Append(rest, [NewPreload(pl.url, "switch", pl.nextActive)
                                           EXCEPT !.gen = 1 - pl.gen])
            /\ UNCHANGED <<slots, inflight>>

\* preloadImage(url) is called by a caller that awaits it (and so has no
\* earlier call of its own pending on the locator).
PreloadImage(url) ==
    /\ ~inFrame
    /\ url \in DOMAIN loadResult
    /\ \A k \in DOMAIN preloads : ~(preloads[k].url = url /\ preloads[k].cont = "none")
    /\ IF IsReady(imageCache, url)
       THEN /\ UNCHANGED preloads
            /\ last' = [op |-> "preloadCached", loop |-> FALSE]
       ELSE /\ Len(inflight) + Len(preloads) < MaxInflight
            /\ preloads' = Append(preloads, NewPreload(url, "none", 0))
            /\ last' = [op |-> "preloadStarted", loop |-> FALSE]
    /\ UNCHANGED <<seriesData, activeViewers, positionMap, currentFrameIndex,
                   currentPosition, isPlaying, playInterval, syncEnabled, syncMode,
                   activeSeries, radioMode, checkboxChecked, visible,
                   savedSeriesData, loadPhase, pendingGroups, switched, loops,
                   traced, now, delay, lastTime, advances, lastPaint, missedTick,
                   lastWheelTime, wheelDelta, slots, inflight, inFrame,
                   imageCache, loadResult>>
    /\ UNCHANGED pureVars

\* The load of preloads[k] ends: img.onload calls decode(), img.onerror
\* resolves the promise.
LoadSettles(k) ==
    /\ ~inFrame
    /\ k \in DOMAIN preloads
    /\ preloads[k].phase = "loading"
    /\ IF loadResult[preloads[k].url] = "loadFails"
       THEN Resolve(k, imageCache)
       ELSE /\ preloads' = [preloads EXCEPT ![k].phase = "decoding"]
            /\ UNCHANGED <<slots, inflight>>
    /\ UNCHANGED <<inFrame, imageCache, loadResult>>
    /\ UNCHANGED controllerVars
    /\ UNCHANGED pureVars

\* decode() of preloads[k] settles: fulfilled or rejected, the image is put
\* into the cache and the promise resolves.
\* A decode() that settles without the image being put into the cache.
DecodeSettlesForgets(k) ==
    /\ ~inFrame
    /\ k \in DOMAIN preloads
    /\ preloads[k].phase = "decoding"
    /\ imageCache' = imageCache
    /\ Resolve(k, imageCache')
    /\ UNCHANGED <<inFrame, loadResult>>
    /\ UNCHANGED controllerVars
    /\ UNCHANGED pureVars

DecodeSettles(k) ==
    /\ ~inFrame
    /\ k \in DOMAIN preloads
    /\ preloads[k].phase = "decoding"
    /\ imageCache' = imageCache \cup {preloads[k].url}
    /\ Resolve(k, imageCache')
    /\ UNCHANGED <<inFrame, loadResult>>
    /\ UNCHANGED controllerVars
    /\ UNCHANGED pureVars

\* processSeriesFiles resumes when every preload of the batch has resolved:
\* the series is stored, the position index rebuilt, and handleFileSelect
\* builds the viewers and shows frame 0.
\* createSeriesViewers empties the container and builds new image elements
\* and new viewer objects: a preload that a transition of an old viewer waits
\* for still loads and caches its image, but the switch it resolves into
\* touches only the removed elements.
Detached(pl) ==
    [k \in DOMAIN pl |->
        IF pl[k].cont = "switch" THEN [pl[k] EXCEPT !.cont = "none"] ELSE pl[k]]

BatchResumes ==
    /\ ~inFrame
    /\ loadPhase = "batch"
    /\ pendingGroups # <<>>
    /\ \A k \in DOMAIN preloads : preloads[k].cont # "batch"
    /\ LET g == Head(pendingGroups)
           r1 == [This EXCEPT !.seriesData =
                     [s \in DOMAIN @ \cup {g.name} |->
                         IF s = g.name THEN BatchSeries(g.count) ELSE @[s]]]
           r2 == ShowFrame(CreateSeriesViewers(CreatePositionMap(r1)), 0, FALSE, NoSeries)
       IN /\ Commit(r2)
          /\ slots' = [v \in DOMAIN r2.activeViewers |-> NewSlots]
          /\ savedSeriesData' = r2.seriesData
    /\ inflight' = <<>>
    /\ preloads' = Detached(preloads)
    /\ pendingGroups' = Tail(pendingGroups)
    /\ loadPhase' = "idle"
    /\ visible' = TRUE
    /\ last' = [op |-> "finishFileSelect", loop |-> FALSE]
    /\ UNCHANGED <<radioMode, checkboxChecked, traced, now, delay, lastTime,
                   advances, lastPaint, missedTick, lastWheelTime, wheelDelta,
                   inFrame, imageCache, loadResult>>
    /\ UNCHANGED pureVars

\* A batch of MaxFrames T1 files has been selected: handleFileSelect has
\* emptied the catalog and the cache, and processSeriesFiles has called
\* preloadImage for every file; each file's load ends in one of LoadResults.
InitPreload ==
    /\ seriesData = EmptyMap
    /\ activeViewers = EmptyMap
    /\ positionMap = [positions |-> <<>>, series |-> EmptyMap]
    /\ currentFrameIndex = 0
    /\ currentPosition = 0
    /\ isPlaying = FALSE
    /\ playInterval = "null"
    /\ syncEnabled = TRUE
    /\ syncMode = "frame"
    /\ activeSeries = NoSeries
    /\ radioMode = "frame"
    /\ checkboxChecked = TRUE
    /\ visible = FALSE
    /\ savedSeriesData = EmptyMap
    /\ loadPhase = "batch"
    /\ pendingGroups = <<Group("T1", MaxFrames)>>
    /\ switched = {}
    /\ loops = <<>>
    /\ last = [op |-> "handleFileSelect", loop |-> FALSE]
    /\ traced = Handlers
    /\ now = 0
    /\ delay = 1000 \div 5
    /\ lastTime = 0
    /\ advances = 0
    /\ lastPaint = 0
    /\ missedTick = FALSE
    /\ lastWheelTime = 0
    /\ wheelDelta = 0
    /\ slots = EmptyMap
    /\ inflight = <<>>
    /\ inFrame = FALSE
    /\ imageCache = {}
    /\ loadResult \in [{Url("T1", f) : f \in 0..(MaxFrames - 1)} -> LoadResults]
    /\ preloads = [k \in 1..MaxFrames |-> NewPreload(Url("T1", k - 1), "batch", 0)]
    /\ input = <<>>
    /\ output = <<>>
    /\ objectUrls = NoUrls(FALSE)

\* The places in preloads.
PreloadSlots == 1..Max2(MaxFrames, MaxInflight)

\* The batch loads, and preloadImage is called on its locators.
NextPreload ==
    \/ \E k \in PreloadSlots : LoadSettles(k)
    \/ \E k \in PreloadSlots : DecodeSettles(k)
    \/ BatchResumes
    \/ \E u \in DOMAIN loadResult : PreloadImage(u)

\* Every load ends in a load or error event and every decode() settles.
LoadsSettle ==
    \A k \in PreloadSlots : WF_vars(LoadSettles(k)) /\ WF_vars(DecodeSettles(k))

SpecPreload == InitPreload /\ [][NextPreload]_vars /\ LoadsSettle

\* A transition whose frame is being preloaded, or that is running.
Switching ==
    \/ inflight # <<>>
    \/ \E k \in DOMAIN preloads : preloads[k].cont = "switch"

\* The batch loads and the next button is clicked whenever the view has
\* caught up with the previous click, with the frame transitions this
\* starts.
NextRetry ==
    \/ \E k \in PreloadSlots : LoadSettles(k)
    \/ \E k \in PreloadSlots : DecodeSettles(k)
    \/ BatchResumes
    \/ \E t \in Labels \cup {NoSeries} : ~Switching /\ Navigate(1, t)
    \/ FrameBegins
    \/ RunCallback
    \/ Paint
    \/ TimerFires

\* The browser keeps running frames and timers.
FramesRun ==
    /\ WF_vars(FrameBegins)
    /\ WF_vars(RunCallback)
    /\ WF_vars(Paint)
    /\ WF_vars(TimerFires)

SpecRetry ==
    InitPreload /\ [][NextRetry]_vars /\ LoadsSettle /\ FramesRun

\* ================================================================ claims
Positions == positionMap.positions

Bound == DOMAIN activeViewers \cap DOMAIN seriesData

FrameCount(s) == Len(seriesData[s].frames)

\* The index of the series' frame at position p, or 0 if it has none.
FrameAt(series, p) ==
    IF \E i \in 0..(Len(series.frames) - 1) : series.frames[i + 1] = p
    THEN CHOOSE i \in 0..(Len(series.frames) - 1) : series.frames[i + 1] = p
    ELSE 0

Clamp(x, lo, hi) == Max2(lo, Min2(x, hi))

NavigationHandlers == {"showFrame", "showNextFrame", "showPreviousFrame"}

CurrentFramesUnchanged ==
    /\ DOMAIN activeViewers' = DOMAIN activeViewers
    /\ \A s \in DOMAIN activeViewers :
          activeViewers'[s].currentFrame = activeViewers[s].currentFrame

\* C1: in Synced position mode, after a navigation to a valid global index i
\* every bound series has currentFrame equal to the index of its frame whose
\* position is globalPositions[i], and 0 if it has no such frame.
C1_PositionLookup ==
    ( /\ syncEnabled
      /\ syncMode = "position"
      /\ last.op \in NavigationHandlers
      /\ currentFrameIndex \in 0..(Len(Positions) - 1) )
    => \A s \in Bound :
          activeViewers[s].currentFrame
             = FrameAt(seriesData[s], Positions[currentFrameIndex + 1])

\* C2: with T1WI of 5 frames and T2WI of 3 frames loaded together there are 5
\* global positions, and in Synced position mode at global index 4 T1WI shows
\* its index 4 and T2WI its index 2.
C2_WorkedExample ==
    ( /\ loadPhase = "idle"
      /\ DOMAIN activeViewers = {"T1", "T2"} )
    => /\ Len(Positions) = 5
       /\ ( /\ syncEnabled
            /\ syncMode = "position"
            /\ currentFrameIndex = 4 )
          => /\ activeViewers["T1"].currentFrame = 4
             /\ activeViewers["T2"].currentFrame = 2

\* C3: in Synced mode with n > 0 global positions, +1 with wrap from n-1
\* gives 0, -1 with wrap from 0 gives n-1, and without wrap both leave the
\* index where it is.
C3_WrapAround ==
    [][ (syncEnabled /\ Len(Positions) > 0) =>
          /\ ( /\ currentFrameIndex = Len(Positions) - 1
               /\ \E t \in Labels \cup {NoSeries} : NextFrame(TRUE, t) )
             => currentFrameIndex' = 0
          /\ ( /\ currentFrameIndex = 0
               /\ \E t \in Labels \cup {NoSeries} : PreviousFrame(TRUE, t) )
             => currentFrameIndex' = Len(Positions) - 1
          /\ ( /\ currentFrameIndex = Len(Positions) - 1
               /\ \E t \in Labels \cup {NoSeries} : NextFrame(FALSE, t) )
             => currentFrameIndex' = currentFrameIndex
          /\ ( /\ currentFrameIndex = 0
               /\ \E t \in Labels \cup {NoSeries} : PreviousFrame(FALSE, t) )
             => currentFrameIndex' = currentFrameIndex ]_vars

\* A wrapping +1 has just run in Synced mode and the index is back at 0 of
\* at least two positions.
C3_Witness ==
    /\ last = [op |-> "showNextFrame", loop |-> TRUE]
    /\ syncEnabled
    /\ loadPhase = "idle"
    /\ Len(Positions) >= 2
    /\ currentFrameIndex = 0
    /\ Bound # {}

\* The targets a caller of showFrame can name in the state: none while
\* Synced, a bound series while Unsynced.
ExplicitTargets == IF syncEnabled THEN {NoSeries} ELSE Bound

\* The viewers switchImage is called on by the second of two consecutive
\* showFrame(currentFrameIndex, false, t).
SecondZeroDelta(t) ==
    LET first == ShowFrame(This, currentFrameIndex, FALSE, t)
        second == ShowFrame([first EXCEPT !.switched = {}],
                            first.currentFrameIndex, FALSE, t)
    IN second.switched

\* C4: from any reachable state (Synced, or Unsynced with an explicit
\* target), the second of two consecutive showFrame(currentFrameIndex)
\* without wrap calls switchImage on no binding.
C4_Idempotent ==
    \A t \in ExplicitTargets : SecondZeroDelta(t) = {}

\* C5: whenever globalPositions is non-empty, currentFrameIndex is one of
\* its indices.
C5_IndexInRange ==
    Len(Positions) > 0 => currentFrameIndex \in 0..(Len(Positions) - 1)

\* C6: whenever sync is enabled, activeSeries is null.
C6_NoSelectionWhenSynced ==
    syncEnabled => activeSeries = NoSeries

\* A viewer was clicked while sync was enabled, and no series is selected.
C6_Witness ==
    /\ last.op = "selectSeries"
    /\ syncEnabled
    /\ activeSeries = NoSeries
    /\ Bound # {}

\* The frame index a step by delta from frame f of a series of n frames
\* lands on.
Stepped(f, delta, allowLoop, n) ==
    IF allowLoop
    THEN IF f + delta < 0 THEN n - 1
         ELSE IF f + delta >= n THEN 0
         ELSE f + delta
    ELSE Clamp(f + delta, 0, n - 1)

OthersUntouched(t) ==
    /\ DOMAIN activeViewers' = DOMAIN activeViewers
    /\ \A s \in DOMAIN activeViewers \ {t} : activeViewers'[s] = activeViewers[s]
    /\ switched' \subseteq {t}

\* C7: in Unsynced mode a step by +1 or -1 with an explicit target series
\* moves that series' currentFrame, clamped or wrapped over its own frame
\* count, and leaves currentFrame, currentPosition and the active slot of
\* every other binding as they were.
C7_UnsyncedStep ==
    [][ \A t \in Bound, allowLoop \in BOOLEAN :
          /\ (~syncEnabled /\ NextFrame(allowLoop, t))
             => /\ activeViewers'[t].currentFrame
                     = Stepped(activeViewers[t].currentFrame, 1, allowLoop, FrameCount(t))
                /\ OthersUntouched(t)
          /\ (~syncEnabled /\ PreviousFrame(allowLoop, t))
             => /\ activeViewers'[t].currentFrame
                     = Stepped(activeViewers[t].currentFrame, 0 - 1, allowLoop, FrameCount(t))
                /\ OthersUntouched(t) ]_vars

\* An Unsynced +1 has just moved one of two bindings off frame 0 while the
\* other stays on frame 0.
C7_Witness ==
    /\ last.op = "showNextFrame"
    /\ ~syncEnabled
    /\ switched # {}
    /\ \E s \in Bound, t \in Bound :
          /\ s # t
          /\ s \in switched
          /\ activeViewers[s].currentFrame = 1
          /\ activeViewers[t].currentFrame = 0
          /\ FrameCount(t) >= 2

\* C8: disabling sync changes no binding's currentFrame, and while Unsynced
\* a key or button step with no selection, a playback tick with no
\* selection and a slider move change no binding's currentFrame.
C8_NoTargetNoMove ==
    [][ /\ (SyncCheckboxChange /\ ~syncEnabled') => CurrentFramesUnchanged
        /\ ( /\ ~syncEnabled
             /\ activeSeries = NoSeries
             /\ \/ KeyNext
                \/ KeyPrevious
                \/ \E i \in 1..MaxLoops, fire \in BOOLEAN : PlaybackTick(i, fire) )
           => CurrentFramesUnchanged
        /\ (~syncEnabled /\ \E i \in 0..MaxFrames : SliderInput(i))
           => CurrentFramesUnchanged ]_vars

\* A playback tick has just fired with sync off and no selection, and a
\* binding still rests on a frame other than 0.
C8_Witness ==
    /\ last.op = "playbackTick"
    /\ ~syncEnabled
    /\ activeSeries = NoSeries
    /\ isPlaying
    /\ \E s \in Bound : activeViewers[s].currentFrame > 0

\* C9: while Synced, switching to position mode sets globalPosition to the
\* minimum currentPosition of the bindings, and every binding then shows
\* its frame at that position (frame 0 if it has none).
C9_PositionSwitch ==
    [][ (PositionRadioChange /\ syncEnabled /\ Bound # {}) =>
          LET minPosition == MathMin({activeViewers[s].currentPosition : s \in Bound})
          IN /\ currentPosition' = minPosition
             /\ \A s \in Bound :
                   activeViewers'[s].currentFrame = FrameAt(seriesData[s], minPosition) ]_vars

\* C10: while Synced, switching to frame mode sets globalFrameIndex to the
\* minimum currentFrame of the bindings, clamped to the global range, and
\* every binding then shows min(globalFrameIndex, its frame count - 1).
C10_FrameSwitch ==
    [][ (FrameRadioChange /\ syncEnabled /\ Bound # {}) =>
          /\ currentFrameIndex'
                = Clamp(MathMin({activeViewers[s].currentFrame : s \in Bound}),
                        0, Len(Positions) - 1)
          /\ \A s \in Bound :
                activeViewers'[s].currentFrame
                   = Min2(currentFrameIndex', FrameCount(s) - 1) ]_vars

\* The frame radio has just been chosen in Synced mode with two bindings,
\* and the common index is past 0.
C10_Witness ==
    /\ last.op = "setModeFrame"
    /\ syncEnabled
    /\ Cardinality(Bound) = 2
    /\ currentFrameIndex >= 1
    /\ \A s \in Bound : activeViewers[s].currentFrame = Min2(currentFrameIndex, FrameCount(s) - 1)

\* The frame the sync mode resolves for a series at global index i: the
\* clamped index in frame mode, the frame at globalPositions[i] (frame 0 if
\* the series has none) in position mode.
Resolved(s, mode, i) ==
    IF mode = "position"
    THEN FrameAt(seriesData[s], At(Positions, i))
    ELSE Min2(i, FrameCount(s) - 1)

\* C11: enabling sync from Unsynced clears activeSeries, sets
\* currentFrameIndex to the minimum currentFrame of the bindings (clamped to
\* the global range) and re-navigates: every binding then shows the frame
\* the sync mode resolves for that index.
C11_EnableSync ==
    [][ (SyncCheckboxChange /\ ~syncEnabled /\ syncEnabled') =>
          /\ activeSeries' = NoSeries
          /\ Bound # {} =>
                /\ currentFrameIndex'
                      = Clamp(MathMin({activeViewers[s].currentFrame : s \in Bound}),
                              0, Len(Positions) - 1)
                /\ \A s \in Bound :
                      activeViewers'[s].currentFrame
                         = Resolved(s, syncMode, currentFrameIndex') ]_vars

\* C12: a click on a series changes no state while Synced; while Unsynced
\* it sets activeSeries to the series and copies its currentFrame and
\* currentPosition into the global cursor, and moves no binding.
C12_SelectSeries ==
    [][ \A s \in Labels :
          SeriesClick(s) =>
             /\ activeViewers' = activeViewers
             /\ switched' = {}
             /\ UNCHANGED <<seriesData, positionMap, isPlaying, playInterval,
                            syncEnabled, syncMode, radioMode, checkboxChecked,
                            visible, savedSeriesData, loadPhase, pendingGroups, loops>>
             /\ IF syncEnabled
                THEN UNCHANGED <<activeSeries, currentFrameIndex, currentPosition>>
                ELSE /\ activeSeries' = s
                     /\ currentFrameIndex' = activeViewers[s].currentFrame
                     /\ currentPosition' = activeViewers[s].currentPosition ]_vars

\* A series resting on frame 1 has just been selected while Unsynced and
\* the cursor shows its frame; the other binding rests on frame 0.
C12_Witness ==
    /\ last.op = "selectSeries"
    /\ ~syncEnabled
    /\ activeSeries \in Bound
    /\ activeViewers[activeSeries].currentFrame = 1
    /\ currentFrameIndex = 1
    /\ currentPosition = Spacing
    /\ \E t \in Bound \ {activeSeries} : activeViewers[t].currentFrame = 0

\* C13: while Playing, a playback tick that finds the cursor it advances on
\* its last index (the last global index when Synced, the last frame of the
\* active series when Unsynced) moves it to index 0.
C13_PlaybackWraps ==
    [][ (isPlaying /\ \E i \in 1..MaxLoops : PlaybackTick(i, TRUE)) =>
          /\ ( /\ syncEnabled
               /\ Len(Positions) > 0
               /\ currentFrameIndex = Len(Positions) - 1 )
             => currentFrameIndex' = 0
          /\ ( /\ ~syncEnabled
               /\ activeSeries \in Bound
               /\ activeViewers[activeSeries].currentFrame = FrameCount(activeSeries) - 1 )
             => activeViewers'[activeSeries].currentFrame = 0 ]_vars

\* C14: a firing of the playback loop advances one frame and leaves the
\* elapsed accumulator (time - lastTime) at elapsed - delay, also when
\* elapsed >= 2 * delay.
C14_OneIntervalPerFire ==
    [][ (FramePlayback /\ now - lastTime >= delay) =>
          /\ advances' = advances + 1
          /\ now - lastTime' = (now - lastTime) - delay ]_vars

\* floor(T * R / 1000) for the rate R = 1000 / delay.
PacedAdvances(T) == (T * (1000 \div delay)) \div 1000

FramesUnchanged ==
    /\ UNCHANGED <<activeViewers, currentFrameIndex, currentPosition>>
    /\ switched' = {}

\* C16: pausing cancels the loop the handle names and clears the handle;
\* while the playing flag is off no paint callback of a playback loop
\* advances a frame; and a second stopPlayback changes nothing.
C16_StopCancels ==
    [][ /\ (PlayPauseClick /\ isPlaying)
           => /\ ~isPlaying'
              /\ playInterval' = "null"
              /\ \A i \in DOMAIN loops' : ~loops'[i].referenced
        /\ (~isPlaying /\ \E i \in 1..MaxLoops, fire \in BOOLEAN : PlaybackTick(i, fire))
           => FramesUnchanged
        /\ StopPlayback(StopPlayback(This)) = StopPlayback(This) ]_vars

\* Play has just been paused while two loops were alive: the one the handle
\* named is cancelled, the other has a callback pending.
C16_Witness ==
    /\ last.op = "togglePlayback"
    /\ ~isPlaying
    /\ playInterval = "null"
    /\ Len(loops) = 1
    /\ Len(Positions) > 0


\* Some wheel event over a viewer, gap milliseconds after the previous one.
WheelEvent(gap, deltaY, s) == HandleWheelScroll(gap, deltaY, s)

\* C17: a wheel event less than 30 ms after the last accepted one is dropped
\* entirely: no frame moves and switchImage is called on no binding, nothing
\* is added to the accumulator, and the last-accepted timestamp stays.
C17_WheelThrottle ==
    [][ \A gap \in WheelGaps, deltaY \in WheelDeltas, s \in Labels :
          ( /\ WheelEvent(gap, deltaY, s)
            /\ (now + gap) - lastWheelTime < WheelInterval )
          => /\ FramesUnchanged
             /\ switched' = {}
             /\ wheelDelta' = wheelDelta
             /\ lastWheelTime' = lastWheelTime ]_vars

\* An event was dropped while an earlier accepted one had left something in
\* the accumulator.
C17_Witness ==
    /\ last.op = "wheelDropped"
    /\ lastWheelTime > 0
    /\ now - lastWheelTime < WheelInterval
    /\ wheelDelta # 0
    /\ Len(Positions) >= 2

\* C18: for a wheel event that passes the throttle, a navigation is issued
\* exactly when the accumulated deltaY exceeds 30 in absolute value (exactly
\* 30 issues none and is kept); it is one wrapping step, +1 for a positive
\* sum and -1 for a negative one, of the series under the pointer (of the
\* global index while Synced), and it resets the accumulator to 0.
C18_WheelStep ==
    [][ \A gap \in WheelGaps, deltaY \in WheelDeltas, s \in Bound :
          ( /\ WheelEvent(gap, deltaY, s)
            /\ (now + gap) - lastWheelTime >= WheelInterval )
          => LET sum == wheelDelta + deltaY
                 delta == IF sum > 0 THEN 1 ELSE 0 - 1
             IN IF Abs(sum) > 30
                THEN /\ wheelDelta' = 0
                     /\ IF syncEnabled
                        THEN currentFrameIndex'
                               = Stepped(currentFrameIndex, delta, TRUE, Len(Positions))
                        ELSE /\ activeViewers'[s].currentFrame
                                  = Stepped(activeViewers[s].currentFrame, delta,
                                            TRUE, FrameCount(s))
                             /\ OthersUntouched(s)
                ELSE /\ wheelDelta' = sum
                     /\ FramesUnchanged
                     /\ switched' = {} ]_vars

\* The accumulator stood at exactly 30 without a navigation, and a later
\* event has stepped the series under the pointer.
C18_AtThreshold ==
    /\ last.op = "wheelAccepted"
    /\ Abs(wheelDelta) = WheelThreshold
    /\ Len(Positions) >= 2

C18_Witness ==
    /\ last.op = "wheelStep"
    /\ wheelDelta = 0
    /\ ~syncEnabled
    /\ \E s, t \in Bound :
          /\ activeViewers[s].currentFrame = 1
          /\ activeViewers[t].currentFrame = 0
          /\ s # t


\* The transitions in flight on the viewer: started, and the viewer's
\* currentActive not yet set by them.
InFlightOn(v) == {k \in DOMAIN inflight : inflight[k].viewer = v}

\* C19: on each binding at most one frame transition is in flight at any
\* time.
C19_OneInFlight ==
    \A v \in DOMAIN slots : Cardinality(InFlightOn(v)) <= 1

\* The image element i of viewer v goes from visible to hidden in the step.
Hides(v, i) == slots[v].opacity[i] = 1 /\ slots'[v].opacity[i] = 0

\* C20: a step that hides the outgoing image element of a transition comes
\* after a paint boundary at which the transition's incoming image element
\* was shown at full opacity.
C20_HiddenAfterPaint ==
    [][ \A v \in DOMAIN slots, i \in 1..2 :
          Hides(v, i)
          => \E k \in InFlightOn(v) :
                /\ Outgoing(inflight[k]) = i
                /\ inflight[k].painted ]_vars

\* C20, amended: the second paint callback of a transition makes the incoming
\* image element fully opaque and hides the outgoing one in one step; an
\* image element is hidden by no other step, and by that one only after at
\* least one paint boundary since the transition started; and the viewer's
\* active-slot pointer and classes are set only by the timer of a transition
\* that has made this exchange, after a further paint boundary.
C20_SwapInOneStep ==
    [][ \A v \in DOMAIN slots :
          /\ \A k \in InFlightOn(v) :
                ( /\ Len(inflight') = Len(inflight)
                  /\ inflight[k].stage = "raf2"
                  /\ inflight'[k].stage = "timeout" )
                => /\ slots'[v].opacity[Incoming(inflight[k])] = 1
                   /\ slots'[v].opacity[Outgoing(inflight[k])] = 0
          /\ \A i \in 1..2 :
                Hides(v, i)
                => \E k \in InFlightOn(v) :
                      /\ Outgoing(inflight[k]) = i
                      /\ inflight[k].stage = "raf2"
                      /\ inflight'[k].stage = "timeout"
                      /\ inflight[k].paints >= 1
                      /\ slots'[v].opacity[Incoming(inflight[k])] = 1
          /\ (slots'[v].currentActive # slots[v].currentActive \/ slots'[v].active # slots[v].active)
             => \E k \in InFlightOn(v) :
                   /\ inflight[k].stage = "timeout"
                   /\ inflight[k].paints >= 2
                   /\ Len(inflight') = Len(inflight) - 1
                   /\ slots'[v].currentActive = inflight[k].nextActive ]_vars

\* A transition has run alone on T1 to its end: the second image element
\* shows frame 1 at full opacity and is the active one, the first is hidden.
C20_Witness ==
    /\ inflight = <<>>
    /\ last.op = "showNextFrame"
    /\ slots["T1"].currentActive = 1
    /\ slots["T1"].opacity = <<0, 1>>
    /\ slots["T1"].src = <<0, 1>>
    /\ slots["T1"].active = <<FALSE, TRUE>>
    /\ activeViewers["T1"].currentFrame = 1


\* C21: every frame transition comes to its end, whatever the outcome of
\* the image loads: the retry loop of switchImage does not run forever.
C21_TransitionTerminates == Switching ~> ~Switching


\* The locators of the batch.
BatchUrls == {Url("T1", f) : f \in 0..(MaxFrames - 1)}

\* The promise of the preloadImage call on locator u for the waiter c has
\* not resolved.
Unresolved(u, c) ==
    \E k \in DOMAIN preloads : preloads[k].url = u /\ preloads[k].cont = c

\* C22: every preloadImage promise resolves, whether the load and decode
\* succeed, decode fails or the load fails; when decode() has settled
\* (fulfilled or rejected) the locator is in the cache; and preloadImage of a
\* cached locator resolves at once and starts no load.
C22_PreloadResolves ==
    /\ \A u \in BatchUrls, c \in {"batch", "none"} : Unresolved(u, c) ~> ~Unresolved(u, c)
    /\ [][ /\ \A k \in PreloadSlots :
                DecodeSettles(k)
                => /\ preloads[k].url \in imageCache'
                   /\ Len(preloads') = Len(preloads) - 1
           /\ \A k \in PreloadSlots :
                (LoadSettles(k) /\ loadResult[preloads[k].url] = "loadFails")
                => /\ Len(preloads') = Len(preloads) - 1
                   /\ imageCache' = imageCache
           /\ \A u \in BatchUrls :
                (PreloadImage(u) /\ u \in imageCache)
                => UNCHANGED <<preloads, imageCache>> ]_vars

\* preloadImage has just resolved at once for a locator that is cached
\* although its decode failed, and every load has ended.
C22_Witness ==
    /\ last.op = "preloadCached"
    /\ preloads = <<>>
    /\ loadPhase = "idle"
    /\ \E u \in imageCache : loadResult[u] = "decodeFails"
    /\ \E u \in BatchUrls \ imageCache : loadResult[u] = "loadFails"


\* All frame positions of the catalog.
CatalogPositions == UNION {Range(seriesData[s].positions) : s \in DOMAIN seriesData}

StrictlyIncreasing(seq) == \A i \in 1..(Len(seq) - 1) : seq[i] < seq[i + 1]

\* C23: whenever no load of the catalog is in progress, globalPositions is
\* the strictly increasing sequence of exactly the frame positions of the
\* catalog, and every series of the catalog has a lookup that maps each of
\* its positions to a frame at that position.
C23_IndexRebuilt ==
    loadPhase = "idle"
    => /\ StrictlyIncreasing(Positions)
       /\ Range(Positions) = CatalogPositions
       /\ \A s \in DOMAIN seriesData :
             /\ s \in DOMAIN positionMap.series
             /\ DOMAIN positionMap.series[s] = Range(seriesData[s].positions)
             /\ \A q \in DOMAIN positionMap.series[s] :
                   At(seriesData[s].positions, positionMap.series[s][q]) = q

\* C29: a loadFile whose read fails leaves the catalog, the bindings, the
\* position index, the cursor and the sync state as they were, and returns
\* normally.
C29_FailedReadNoSeries ==
    [][ last'.op = "loadFileFailed"
        => /\ UNCHANGED <<seriesData, activeViewers, positionMap, currentFrameIndex,
                          currentPosition, syncEnabled, syncMode, activeSeries,
                          isPlaying, visible, loadPhase>>
           /\ switched' = {} ]_vars

\* A read has just failed on a view that shows a series.
C29_Witness ==
    /\ last.op = "loadFileFailed"
    /\ Bound # {}
    /\ Len(Positions) >= 2

\* C30: in every state with sync enabled and no catalog load in progress,
\* every binding shows the frame the sync mode resolves for the global
\* index.
C30_LockStep ==
    (syncEnabled /\ loadPhase = "idle")
    => \A s \in Bound :
          activeViewers[s].currentFrame = Resolved(s, syncMode, currentFrameIndex)

\* ---------------------------------------------------------------------------
\* File names and the series they are assigned to
\* ---------------------------------------------------------------------------

\* File names are put together from these pieces; the code only ever sees the
\* characters they spell.
Pieces == {"T1", "t2", "FLAIR", "DWI", "SWI", "ADC", "Ser", "ies", "_", "7", "x"}

Spelling(piece) ==
    CASE piece = "T1"    -> <<"T", "1">>
      [] piece = "t2"    -> <<"t", "2">>
      [] piece = "FLAIR" -> <<"F", "L", "A", "I", "R">>
      [] piece = "DWI"   -> <<"D", "W", "I">>
      [] piece = "SWI"   -> <<"S", "W", "I">>
      [] piece = "ADC"   -> <<"A", "D", "C">>
      [] piece = "Ser"   -> <<"S", "e", "r">>
      [] piece = "ies"   -> <<"i", "e", "s">>
      [] OTHER           -> <<piece>>

\* The longest file name, in pieces.
MaxPieces == 3

FileNames == UNION {[1..n -> Pieces] : n \in 1..MaxPieces}

RECURSIVE Chars(_)
Chars(name) ==
    IF name = <<>> THEN <<>> ELSE Spelling(Head(name)) \o Chars(Tail(name))

\* The i flag of the patterns: letters are compared without their case.
Upper(c) ==
    CASE c = "t" -> "T"
      [] c = "e" -> "E"
      [] c = "r" -> "R"
      [] c = "i" -> "I"
      [] c = "s" -> "S"
      [] OTHER   -> c

DigitChars == <<"0", "1", "2", "3", "4", "5", "6", "7", "8", "9">>

IsDigit(c) == c \in Range(DigitChars)

DigitValue(c) == (CHOOSE i \in 1..Len(DigitChars) : DigitChars[i] = c) - 1

\* parseInt of a run of decimal digits.
RECURSIVE ParseInt(_)
ParseInt(digits) ==
    IF digits = <<>> THEN 0
    ELSE 10 * ParseInt(SubSeq(digits, 1, Len(digits) - 1))
         + DigitValue(digits[Len(digits)])

\* The decimal digits a number is written with in a template string.
RECURSIVE ToDigits(_)
ToDigits(n) ==
    IF n < 10 THEN <<DigitChars[n + 1]>>
    ELSE ToDigits(n \div 10) \o <<DigitChars[(n % 10) + 1]>>

\* word matches the characters at position i.
MatchesAt(chars, i, word) ==
    /\ i + Len(word) - 1 <= Len(chars)
    /\ \A j \in 1..Len(word) : Upper(chars[i + j - 1]) = word[j]

\* fileName.match(/word/i) finds something.
Matches(chars, word) == \E i \in 1..Len(chars) : MatchesAt(chars, i, word)

\* The length of the longest run, from position i, of characters in set.
RECURSIVE RunLength(_, _, _)
RunLength(chars, i, set) ==
    IF i > Len(chars) \/ chars[i] \notin set THEN 0
    ELSE 1 + RunLength(chars, i + 1, set)

Separators == {"_", " "}

\* /(SER|Seq|Series)[_\s]*(\d+)/i
SeriesWords == << <<"S", "E", "R">>, <<"S", "E", "Q">>,
                  <<"S", "E", "R", "I", "E", "S">> >>

\* Where the digits of the pattern start when word is tried at i, or 0.
DigitsAfter(chars, i, word) ==
    IF ~MatchesAt(chars, i, word) THEN 0
    ELSE LET sep == i + Len(word)
             d   == sep + RunLength(chars, sep, Separators)
         IN  IF d <= Len(chars) /\ IsDigit(chars[d]) THEN d ELSE 0

SeriesMatchAt(chars, i) ==
    \E w \in 1..Len(SeriesWords) : DigitsAfter(chars, i, SeriesWords[w]) > 0

MatchesSeries(chars) == \E i \in 1..Len(chars) : SeriesMatchAt(chars, i)

\* RegExp.$2 of the leftmost match, first alternative first.
SeriesDigits(chars) ==
    LET i == CHOOSE k \in 1..Len(chars) :
                 /\ SeriesMatchAt(chars, k)
                 /\ \A m \in 1..(k - 1) : ~SeriesMatchAt(chars, m)
        w == CHOOSE k \in 1..Len(SeriesWords) :
                 /\ DigitsAfter(chars, i, SeriesWords[k]) > 0
                 /\ \A m \in 1..(k - 1) : DigitsAfter(chars, i, SeriesWords[m]) = 0
        d == DigitsAfter(chars, i, SeriesWords[w])
    IN  SubSeq(chars, d, d + RunLength(chars, d, Range(DigitChars)) - 1)

\* The number of the series no pattern recognises.
UnknownNumber == 999

\* The series names, written so that every digit is a character of its own;
\* the text between the digits is given in English.
T1Name      == <<"T", "1", " weighted (T", "1", "WI)">>
T2Name      == <<"T", "2", " weighted (T", "2", "WI)">>
FlairName   == <<"FLAIR series">>
DwiName     == <<"diffusion weighted (DWI)">>
SwiName     == <<"susceptibility weighted (SWI)">>
AdcName     == <<"ADC map">>
UnknownName == <<"unknown series">>
NumberedName(num) == <<"series ">> \o ToDigits(num)

Series(name, number) == [name |-> name, number |-> number]

DetectSeriesT2First(chars) ==
    IF Matches(chars, <<"T", "2">>) THEN Series(T2Name, 2)
    ELSE IF Matches(chars, <<"T", "1">>) THEN Series(T1Name, 1)
    ELSE IF Matches(chars, <<"F", "L", "A", "I", "R">>) THEN Series(FlairName, 3)
    ELSE IF Matches(chars, <<"D", "W", "I">>) THEN Series(DwiName, 4)
    ELSE IF Matches(chars, <<"S", "W", "I">>) THEN Series(SwiName, 5)
    ELSE IF Matches(chars, <<"A", "D", "C">>) THEN Series(AdcName, 6)
    ELSE IF MatchesSeries(chars)
         THEN LET num == ParseInt(SeriesDigits(chars))
              IN  Series(NumberedName(num), num)
    ELSE Series(UnknownName, UnknownNumber)

\* detectSeriesFromFileName. T1|T1_|_T1 finds something exactly when T1 does.
DetectSeriesFromFileName(chars) ==
    IF Matches(chars, <<"T", "1">>) THEN Series(T1Name, 1)
    ELSE IF Matches(chars, <<"T", "2">>) THEN Series(T2Name, 2)
    ELSE IF Matches(chars, <<"F", "L", "A", "I", "R">>) THEN Series(FlairName, 3)
    ELSE IF Matches(chars, <<"D", "W", "I">>) THEN Series(DwiName, 4)
    ELSE IF Matches(chars, <<"S", "W", "I">>) THEN Series(SwiName, 5)
    ELSE IF Matches(chars, <<"A", "D", "C">>) THEN Series(AdcName, 6)
    ELSE IF MatchesSeries(chars)
         THEN LET num == ParseInt(SeriesDigits(chars))
              IN  Series(NumberedName(num), num)
    ELSE Series(UnknownName, UnknownNumber)

\* One file name is classified.
Detect ==
    /\ output = <<>>
    /\ output' = DetectSeriesFromFileName(Chars(input))
    /\ UNCHANGED <<seriesData, activeViewers, positionMap, currentFrameIndex,
                   currentPosition, isPlaying, playInterval, syncEnabled, syncMode,
                   activeSeries, radioMode, checkboxChecked, visible,
                   savedSeriesData, loadPhase, pendingGroups, switched, loops,
                   last, traced, now, delay, lastTime, advances, lastPaint,
                   missedTick, lastWheelTime, wheelDelta, renderVars, cacheVars,
                   input, objectUrls>>

InitDetect ==
    /\ InitView
    /\ traced = Handlers
    /\ now = 0
    /\ delay = 0
    /\ lastTime = 0
    /\ advances = 0
    /\ lastPaint = 0
    /\ missedTick = FALSE
    /\ lastWheelTime = 0
    /\ wheelDelta = 0
    /\ slots = EmptyMap
    /\ inflight = <<>>
    /\ inFrame = FALSE
    /\ imageCache = {}
    /\ loadResult = EmptyMap
    /\ preloads = <<>>
    /\ input \in FileNames
    /\ output = <<>>
    /\ objectUrls = NoUrls(FALSE)

NextDetect == Detect

SpecDetect == InitDetect /\ [][NextDetect]_vars

\* The patterns in the order the specification lists them.
PatternFinds(p, chars) ==
    CASE p = 1 -> Matches(chars, <<"T", "1">>)
      [] p = 2 -> Matches(chars, <<"T", "2">>)
      [] p = 3 -> Matches(chars, <<"F", "L", "A", "I", "R">>)
      [] p = 4 -> Matches(chars, <<"D", "W", "I">>)
      [] p = 5 -> Matches(chars, <<"S", "W", "I">>)
      [] p = 6 -> Matches(chars, <<"A", "D", "C">>)
      [] p = 7 -> MatchesSeries(chars)

PatternNames == <<T1Name, T2Name, FlairName, DwiName, SwiName, AdcName>>

\* C25: detectSeriesFromFileName answers for every file name; the answer is
\* the series of the first pattern, in the order T1, T2, FLAIR, DWI, SWI, ADC,
\* numbered series, that finds something in the name, and it is the unknown
\* series exactly when none of them does.
C25_FirstMatchWins ==
    output # <<>> =>
        LET chars == Chars(input)
            found == {p \in 1..7 : PatternFinds(p, chars)}
        IN  /\ output.name \in Range(PatternNames) \cup {UnknownName}
               \/ output.name = NumberedName(output.number)
            /\ (output.name = UnknownName) <=> (found = {})
            /\ \A p \in found :
                  (\A q \in found : p <= q) =>
                      IF p <= 6 THEN output.name = PatternNames[p]
                      ELSE /\ output.name = NumberedName(output.number)
                           /\ output.number = ParseInt(SeriesDigits(chars))

\* A name that two patterns find has been classified by the earlier one.
C25_Witness ==
    /\ output # <<>>
    /\ Cardinality({p \in 1..7 : PatternFinds(p, Chars(input))}) >= 2
    /\ PatternFinds(2, Chars(input))
    /\ output.name = T1Name

\* ---------------------------------------------------------------------------
\* A file selection turned into series and viewers
\* ---------------------------------------------------------------------------

\* The files one selection is made of: two T1 slices numbered 7, a T1 file
\* whose only digit is the one of its label, a FLAIR file and a file of no
\* known series without digits, and a slice of the numbered series 7.
FilePool == { <<"T1", "_", "7">>, <<"T1", "x", "7">>, <<"T1">>,
              <<"FLAIR">>, <<"x">>, <<"Ser", "7">> }

\* The largest selection.
MaxFiles == 3

\* The files of one selection have different names.
Selections ==
    UNION { {s \in [1..n -> FilePool] :
                \A i, j \in 1..n : s[i] = s[j] => i = j} : n \in 1..MaxFiles }

\* file.name.match(/(\d+)(?!.*\d)/): the last run of digits; 0 without one.
FrameNumber(chars) ==
    LET digitsAt == {i \in 1..Len(chars) : IsDigit(chars[i])}
    IN  IF digitsAt = {} THEN 0
        ELSE LET e == CHOOSE k \in digitsAt : \A m \in digitsAt : m <= k
                 b == CHOOSE k \in 1..e :
                          /\ \A m \in k..e : IsDigit(chars[m])
                          /\ k = 1 \/ ~IsDigit(chars[k - 1])
             IN  ParseInt(SubSeq(chars, b, e))

Unsorted(seq) == seq

\* Array.prototype.sort with the comparator a.key - b.key: ascending, and
\* elements that compare equal keep their order.
RECURSIVE InsertByKey(_, _)
InsertByKey(sorted, x) ==
    IF sorted = <<>> THEN <<x>>
    ELSE IF Head(sorted).key <= x.key
         THEN <<Head(sorted)>> \o InsertByKey(Tail(sorted), x)
         ELSE <<x>> \o sorted

RECURSIVE StableSort(_)
StableSort(seq) ==
    IF seq = <<>> THEN <<>>
    ELSE InsertByKey(StableSort(SubSeq(seq, 1, Len(seq) - 1)), seq[Len(seq)])

FramesWithNumbers(files) ==
    [i \in 1..Len(files) |->
        [file |-> files[i], key |-> FrameNumber(Chars(files[i]))]]

\* processSeriesFiles: the frames of one series.
SeriesFrames(files) ==
    LET sorted == StableSort(FramesWithNumbers(files))
    IN  [i \in 1..Len(sorted) |->
            [name        |-> sorted[i].file,
             frameNumber |-> sorted[i].key,
             position    |-> (i - 1) * Spacing]]

\* handleFileSelect: the files grouped by series, in the order the series
\* first appear.
RECURSIVE SeriesGroups(_)
SeriesGroups(files) ==
    IF files = <<>> THEN <<>>
    ELSE LET before == SeriesGroups(SubSeq(files, 1, Len(files) - 1))
             file   == files[Len(files)]
             name   == DetectSeriesFromFileName(Chars(file)).name
         IN  IF \E g \in 1..Len(before) : before[g].name = name
             THEN [g \in 1..Len(before) |->
                      IF before[g].name = name
                      THEN [before[g] EXCEPT !.files = Append(@, file)]
                      ELSE before[g]]
             ELSE Append(before, [name |-> name, files |-> <<file>>])

\* The sort key of a series without a digit in its name.
DefaultSortKey == 999

\* parseInt(name.match(/\d+/)?.[0] || '999')
FirstNumber(name) ==
    LET digitsAt == {i \in 1..Len(name) : IsDigit(name[i])}
    IN  IF digitsAt = {} THEN DefaultSortKey
        ELSE LET b == CHOOSE k \in digitsAt : \A m \in digitsAt : k <= m
             IN  ParseInt(SubSeq(name, b, b + RunLength(name, b, Range(DigitChars)) - 1))

\* createSeriesViewers: the series in the order their viewers are created.
SeriesList(catalog) ==
    LET sorted == StableSort([i \in 1..Len(catalog) |->
                     [name |-> catalog[i].name, key |-> FirstNumber(catalog[i].name)]])
    IN  [i \in 1..Len(sorted) |-> sorted[i].name]

\* One selection is turned into the catalog and its viewers.
SelectFiles ==
    /\ output = <<>>
    /\ LET groups  == SeriesGroups(input)
           catalog == [g \in 1..Len(groups) |->
                          [name   |-> groups[g].name,
                           files  |-> groups[g].files,
                           frames |-> SeriesFrames(groups[g].files)]]
       IN  output' = [catalog |-> catalog, viewers |-> SeriesList(catalog)]
    /\ UNCHANGED <<seriesData, activeViewers, positionMap, currentFrameIndex,
                   currentPosition, isPlaying, playInterval, syncEnabled, syncMode,
                   activeSeries, radioMode, checkboxChecked, visible,
                   savedSeriesData, loadPhase, pendingGroups, switched, loops,
                   last, traced, now, delay, lastTime, advances, lastPaint,
                   missedTick, lastWheelTime, wheelDelta, renderVars, cacheVars,
                   input, objectUrls>>

InitSelect ==
    /\ InitView
    /\ traced = Handlers
    /\ now = 0
    /\ delay = 0
    /\ lastTime = 0
    /\ advances = 0
    /\ lastPaint = 0
    /\ missedTick = FALSE
    /\ lastWheelTime = 0
    /\ wheelDelta = 0
    /\ slots = EmptyMap
    /\ inflight = <<>>
    /\ inFrame = FALSE
    /\ imageCache = {}
    /\ loadResult = EmptyMap
    /\ preloads = <<>>
    /\ input \in Selections
    /\ output = <<>>
    /\ objectUrls = NoUrls(FALSE)

NextSelect == SelectFiles

SpecSelect == InitSelect /\ [][NextSelect]_vars

\* C24 (as stated): in every series built from a selection the frame numbers
\* increase strictly from one frame to the next and frame i is at i x 5.
C24_StrictlyAscending ==
    output # <<>> =>
        \A s \in 1..Len(output.catalog) :
            LET frames == output.catalog[s].frames
            IN  /\ \A i \in 1..Len(frames) : frames[i].position = (i - 1) * 5
                /\ \A i \in 1..(Len(frames) - 1) :
                      frames[i].frameNumber < frames[i + 1].frameNumber

\* Where file f stands in the selection.
SelectedAt(f) == CHOOSE k \in 1..Len(input) : input[k] = f

\* C24 (amended): in every series built from a selection the frames are the
\* files of the series, each once and with the last number of its name as
\* frame number (0 without one); the frame numbers never decrease from one
\* frame to the next, files with the same frame number keep the order of the
\* selection, and frame i is at i x 5.
C24_AscendingStable ==
    output # <<>> =>
        \A s \in 1..Len(output.catalog) :
            LET frames == output.catalog[s].frames
                files  == output.catalog[s].files
            IN  /\ Len(frames) = Len(files)
                /\ {frames[i].name : i \in 1..Len(frames)} = Range(files)
                /\ \A i \in 1..Len(frames) :
                      /\ frames[i].position = (i - 1) * 5
                      /\ frames[i].frameNumber = FrameNumber(Chars(frames[i].name))
                /\ \A i \in 1..(Len(frames) - 1) :
                      \/ frames[i].frameNumber < frames[i + 1].frameNumber
                      \/ /\ frames[i].frameNumber = frames[i + 1].frameNumber
                         /\ SelectedAt(frames[i].name) < SelectedAt(frames[i + 1].name)

\* A series has been built from three files selected out of order, the last
\* two of which have the same frame number.
C24_Witness ==
    /\ output # <<>>
    /\ \E s \in 1..Len(output.catalog) :
          LET frames == output.catalog[s].frames
          IN  /\ Len(frames) = 3
              /\ frames[2].frameNumber = frames[3].frameNumber
              /\ SelectedAt(frames[1].name) > SelectedAt(frames[2].name)

\* C26: when the catalog holds the unknown series next to recognised ones, the
\* viewer of the unknown series comes after the viewer of every other series.
C26_UnknownLast ==
    output # <<>> =>
        \A i, j \in 1..Len(output.viewers) :
            (output.viewers[i] = UnknownName /\ output.viewers[j] # UnknownName)
                => j < i

\* ---------------------------------------------------------------------------
\* The object URLs of the frames
\* ---------------------------------------------------------------------------

InitUrls ==
    /\ InitView
    /\ traced = Handlers
    /\ now = 0
    /\ delay = 1000 \div 5
    /\ lastTime = 0
    /\ advances = 0
    /\ lastPaint = 0
    /\ missedTick = FALSE
    /\ lastWheelTime = 0
    /\ wheelDelta = 0
    /\ slots = EmptyMap
    /\ inflight = <<>>
    /\ inFrame = FALSE
    /\ imageCache = {}
    /\ loadResult = EmptyMap
    /\ preloads = <<>>
    /\ input = <<>>
    /\ output = <<>>
    /\ objectUrls = NoUrls(TRUE)

\* The handlers that replace the catalog.
NextUrls ==
    \/ \E batch \in Batches : HandleFileSelect(batch)
    \/ ProcessSeriesFiles
    \/ FinishFileSelect
    \/ \E label \in Labels, readOk \in BOOLEAN : LoadFile(label, readOk)
    \/ ClearSavedData
    \/ Reopen
    \/ FinishReload

SpecUrls == InitUrls /\ [][NextUrls]_vars

\* The URLs of the frames of the catalog.
CatalogUrls ==
    UNION {{<<l, f>> : f \in 0..(Len(seriesData[l].frames) - 1)} : l \in DOMAIN seriesData}

\* The URLs that are not revoked are those of the frames of the catalog and
\* those that were dropped with their series.
HeldByCatalog == objectUrls.held = CatalogUrls

\* C27: no object URL of a series that was replaced or dropped from the
\* catalog is left unrevoked.
C27_ReplacedReleased == objectUrls.dropped = {}

\* ---------------------------------------------------------------------------
\* The snapshot: saveSeriesData and loadSavedSeriesData
\* ---------------------------------------------------------------------------

\* The image files: no byte, one, two, three and four bytes.
Payloads == { <<>>, <<0>>, <<255>>, <<77, 97>>, <<77, 97, 110>>,
              <<255, 254, 253, 252>> }

\* The file names of the frames of one series.
SeriesFileNames == { <<"T1", "_", "7">>, <<"T1", "x", "7">>, <<"T1">> }

\* The series a selection of at most MaxFrames files of one series gives, with
\* the bytes of the files.
SavedInputs ==
    UNION { { [frames |-> [i \in 1..n |->
                             [name        |-> SeriesFrames(files)[i].name,
                              frameNumber |-> SeriesFrames(files)[i].frameNumber,
                              position    |-> SeriesFrames(files)[i].position,
                              data        |-> data[i]]],
               positions |-> [i \in 1..n |-> SeriesFrames(files)[i].position]] :
                files \in {s \in [1..n -> SeriesFileNames] :
                              \A i, j \in 1..n : s[i] = s[j] => i = j},
                data \in [1..n -> Payloads] } : n \in 1..MaxFrames }

\* The most arguments a call can take: String.fromCharCode(...bytes) throws a
\* RangeError for more bytes.  The number depends on the engine.
MaxArguments == 3

\* The padding character = of base64; the other characters are 0..63.
Pad == 64

\* btoa(String.fromCharCode(...bytes))
RECURSIVE Btoa(_)
Btoa(bytes) ==
    IF Len(bytes) = 0 THEN <<>>
    ELSE IF Len(bytes) = 1
    THEN <<bytes[1] \div 4, (bytes[1] % 4) * 16, Pad, Pad>>
    ELSE IF Len(bytes) = 2
    THEN <<bytes[1] \div 4, (bytes[1] % 4) * 16 + bytes[2] \div 16,
           (bytes[2] % 16) * 4, Pad>>
    ELSE <<bytes[1] \div 4, (bytes[1] % 4) * 16 + bytes[2] \div 16,
           (bytes[2] % 16) * 4 + bytes[3] \div 64, bytes[3] % 64>>
         \o Btoa(SubSeq(bytes, 4, Len(bytes)))

RECURSIVE DecodeSextets(_)
DecodeSextets(s) ==
    IF Len(s) = 0 THEN <<>>
    ELSE IF Len(s) = 2 THEN <<s[1] * 4 + s[2] \div 16>>
    ELSE IF Len(s) = 3
    THEN <<s[1] * 4 + s[2] \div 16, (s[2] % 16) * 16 + s[3] \div 4>>
    ELSE <<s[1] * 4 + s[2] \div 16, (s[2] % 16) * 16 + s[3] \div 4,
           (s[3] % 4) * 64 + s[4]>>
         \o DecodeSextets(SubSeq(s, 5, Len(s)))

\* atob(data) and the copy of its characters into a Uint8Array; ok is FALSE
\* when atob throws.
Atob(chars) ==
    LET n == Len(chars)
        stripped ==
            IF n > 0 /\ n % 4 = 0 /\ chars[n] = Pad
            THEN IF chars[n - 1] = Pad THEN SubSeq(chars, 1, n - 2)
                                       ELSE SubSeq(chars, 1, n - 1)
            ELSE chars
    IN  IF Len(stripped) % 4 = 1 \/ Pad \in Range(stripped)
        THEN [ok |-> FALSE, bytes |-> <<>>]
        ELSE [ok |-> TRUE, bytes |-> DecodeSextets(stripped)]

\* saveSeriesData for one series: ok is FALSE when it throws, and then the
\* settings keep the snapshot they had.
SaveSeriesData(series) ==
    IF \E i \in 1..Len(series.frames) : Len(series.frames[i].data) > MaxArguments
    THEN [ok |-> FALSE, frames |-> <<>>, positions |-> <<>>]
    ELSE [ok |-> TRUE,
          frames |-> [i \in 1..Len(series.frames) |->
                        [series.frames[i] EXCEPT !.data = Btoa(@)]],
          positions |-> series.positions]

\* loadSavedSeriesData for one saved series: a frame whose data cannot be
\* decoded is left out.
RECURSIVE LoadedFrames(_)
LoadedFrames(saved) ==
    IF saved = <<>> THEN <<>>
    ELSE LET decoded == Atob(Head(saved).data)
         IN  (IF decoded.ok
              THEN <<[Head(saved) EXCEPT !.data = decoded.bytes]>>
              ELSE <<>>) \o LoadedFrames(Tail(saved))

LoadSavedSeriesData(snapshot) ==
    [frames |-> LoadedFrames(snapshot.frames), positions |-> snapshot.positions]

\* A series is saved on fresh settings and the view is opened again.
SaveAndReload ==
    /\ output = <<>>
    /\ LET snapshot == SaveSeriesData(input)
       IN  output' = [saved  |-> snapshot.ok,
                      series |-> IF snapshot.ok /\ Len(LoadedFrames(snapshot.frames)) > 0
                                 THEN LoadSavedSeriesData(snapshot)
                                 ELSE [frames |-> <<>>, positions |-> <<>>]]
    /\ UNCHANGED <<seriesData, activeViewers, positionMap, currentFrameIndex,
                   currentPosition, isPlaying, playInterval, syncEnabled, syncMode,
                   activeSeries, radioMode, checkboxChecked, visible,
                   savedSeriesData, loadPhase, pendingGroups, switched, loops,
                   last, traced, now, delay, lastTime, advances, lastPaint,
                   missedTick, lastWheelTime, wheelDelta, renderVars, cacheVars,
                   input, objectUrls>>

InitSave ==
    /\ InitView
    /\ traced = Handlers
    /\ now = 0
    /\ delay = 0
    /\ lastTime = 0
    /\ advances = 0
    /\ lastPaint = 0
    /\ missedTick = FALSE
    /\ lastWheelTime = 0
    /\ wheelDelta = 0
    /\ slots = EmptyMap
    /\ inflight = <<>>
    /\ inFrame = FALSE
    /\ imageCache = {}
    /\ loadResult = EmptyMap
    /\ preloads = <<>>
    /\ input \in SavedInputs
    /\ output = <<>>
    /\ objectUrls = NoUrls(FALSE)

NextSave == SaveAndReload

SpecSave == InitSave /\ [][NextSave]_vars

\* C28: a series that was saved and loaded again from the snapshot has the
\* same number of frames in the same order, with the same names, frame
\* numbers, positions and bytes.
C28_RoundTrip ==
    output # <<>> =>
        /\ Len(output.series.frames) = Len(input.frames)
        /\ \A i \in 1..Len(input.frames) :
              /\ output.series.frames[i].name = input.frames[i].name
              /\ output.series.frames[i].frameNumber = input.frames[i].frameNumber
              /\ output.series.frames[i].position = input.frames[i].position
              /\ output.series.frames[i].data = input.frames[i].data
        /\ output.series.positions = input.positions

\* A series whose save completed is loaded again as it was.
SavedRoundTrip == (output # <<>> /\ output.saved) => output.series = input

\* The handlers that end in showFrame for the index they were given.
ShowFrameHandlers == {"showNextFrame", "showPreviousFrame", "showFrame",
                      "finishFileSelect"}

\* The frame viewer s showed before the step: that of a new viewer after the
\* viewers were built.
ShownBefore(s) ==
    IF last'.op = "finishFileSelect" \/ s \notin DOMAIN activeViewers
    THEN 0
    ELSE activeViewers[s].currentFrame

\* C32: with sync on, a navigation (and the showFrame(0) that follows the
\* construction of the viewers) calls switchImage for exactly the viewers
\* whose resolved frame differs from the frame they show; the other viewers
\* keep their frame.
C32_SkipsUnchanged ==
    [][ (last'.op \in ShowFrameHandlers /\ syncEnabled') =>
          \A s \in DOMAIN activeViewers' :
              LET resolved == Resolved(s, syncMode, currentFrameIndex)'
              IN  /\ (s \in switched') <=> (resolved # ShownBefore(s))
                  /\ s \notin switched' =>
                        activeViewers'[s].currentFrame = ShownBefore(s) ]_vars

\* C31: switchImage writes the locator of the new frame only into an image
\* element that is hidden when it is written: the source of an element at
\* opacity 1 is never replaced.
C31_WritesHiddenSlot ==
    [][ \A v \in DOMAIN slots \cap DOMAIN slots' : \A i \in 1..2 :
            slots'[v].src[i] # slots[v].src[i] => slots[v].opacity[i] = 0 ]_vars

\* loadFile reads a vault file, before or after the batch resumes: the
\* series is stored without a preload and without a new position index, and
\* createSeriesViewers builds every viewer anew.  The file's resource path loads, fails to load or fails to decode
\* when an image element asks for it.
FileOpens(label) ==
    /\ ~inFrame
    /\ LET r1 == [This EXCEPT !.seriesData =
                     [s \in DOMAIN @ \cup {label} |->
                         IF s = label THEN SingletonSeries ELSE @[s]]]
           r2 == ShowFrame(CreateSeriesViewers(r1), 0, FALSE, NoSeries)
       IN /\ Commit(r2)
          /\ slots' = [v \in DOMAIN r2.activeViewers |-> NewSlots]
    /\ visible' = TRUE
    /\ last' = [op |-> "loadFile", loop |-> FALSE]
    /\ UNCHANGED <<radioMode, checkboxChecked, savedSeriesData, loadPhase,
                   pendingGroups, traced, now, delay, lastTime, advances,
                   lastPaint, missedTick, lastWheelTime, wheelDelta,
                   inFrame, imageCache>>
    /\ inflight' = <<>>
    /\ preloads' = Detached(preloads)
    /\ \E res \in LoadResults :
          loadResult' = [u \in DOMAIN loadResult \cup {Url(label, 0)} |->
                            IF u \in DOMAIN loadResult THEN loadResult[u] ELSE res]
    /\ UNCHANGED pureVars

\* The batch loads and the next button is clicked at any time between two
\* frames, also while earlier transitions are running or waiting for their
\* image.
NextSettle ==
    \/ \E k \in PreloadSlots : LoadSettles(k)
    \/ \E k \in PreloadSlots : DecodeSettles(k)
    \/ BatchResumes
    \/ \E t \in Labels \cup {NoSeries} : Navigate(1, t)
    \/ FrameBegins
    \/ RunCallback
    \/ Paint
    \/ TimerFires

SpecSettle == InitPreload /\ [][NextSettle]_vars

\* The same, with a vault file opened at any time (under a series name other
\* than the batch's) and with the previous button.
NextOpened ==
    \/ NextSettle
    \/ \E label \in Labels \ {"T1"} : FileOpens(label)
    \/ \E t \in Labels \cup {NoSeries} : Navigate(0 - 1, t)

SpecOpened == InitPreload /\ [][NextOpened]_vars

\* No transition is running on viewer v and none waits for its image.
Settled(v) ==
    /\ InFlightOn(v) = {}
    /\ \A k \in DOMAIN preloads :
          preloads[k].cont = "switch" => preloads[k].url[1] # v

\* C36: once every transition on a viewer has completed, the image element
\* named by currentActive is the visible one and holds the image of the
\* viewer's currentFrame.
C36_SettledShowsCurrent ==
    \A v \in DOMAIN slots \cap DOMAIN activeViewers :
        Settled(v) =>
            /\ slots[v].src[slots[v].currentActive + 1] = activeViewers[v].currentFrame
            /\ slots[v].opacity[slots[v].currentActive + 1] = 1

\* The image elements of viewer v that are shown (opacity 1).
VisibleSlots(v) == {i \in 1..2 : slots[v].opacity[i] = 1}

\* C37: every viewer has exactly one of its two image elements visible in
\* every state between two callbacks (so at every paint), currentActive is
\* always 0 or 1, and when no transition is pending on the viewer the
\* visible element is the one that currentActive names.
C37_OneVisible ==
    \A v \in DOMAIN slots :
        /\ Cardinality(VisibleSlots(v)) = 1
        /\ slots[v].currentActive \in {0, 1}
        /\ Settled(v) => VisibleSlots(v) = {slots[v].currentActive + 1}

\* A transition on T1 has been painted with its opacities exchanged while
\* its timer is still pending: the second element is the visible one and
\* currentActive still names the first.
C37_Witness ==
    /\ "T1" \in DOMAIN slots
    /\ \E k \in InFlightOn("T1") : inflight[k].stage = "timeout" /\ inflight[k].painted
    /\ VisibleSlots("T1") = {2}
    /\ slots["T1"].currentActive = 0

\* C38: the currentFrame of every viewer is an index of its series' frames.
C38_ValidCurrentFrame ==
    \A s \in DOMAIN activeViewers :
        /\ s \in DOMAIN seriesData
        /\ activeViewers[s].currentFrame >= 0
        /\ activeViewers[s].currentFrame < FrameCount(s)

\* ------------------------------------------------------------------------
\* The three ways a series comes into the catalog.

\* A stored string that atob rejects: a base64 string cut after its first
\* character.
TruncatedData == SubSeq(Btoa(<<77, 97, 110>>), 1, 1)

\* The snapshots the settings can hold: those saveSeriesData wrote, and the
\* same with the data of one frame damaged in the settings file.
Snapshots ==
    LET written == {SaveSeriesData(s) : s \in {t \in SavedInputs : SaveSeriesData(t).ok}}
    IN  {[frames |-> w.frames, positions |-> w.positions] : w \in written}
        \cup UNION {{[frames |-> [w.frames EXCEPT ![i].data = TruncatedData],
                      positions |-> w.positions] : i \in 1..Len(w.frames)} :
                        w \in written}

\* What a series is created from.
CreationInputs ==
    {[kind |-> "batch", files |-> files] :
        files \in UNION {[1..n -> SeriesFileNames] : n \in 1..MaxFrames}}
    \cup {[kind |-> "file", name |-> name] : name \in SeriesFileNames}
    \cup {[kind |-> "snapshot", snapshot |-> snapshot] : snapshot \in Snapshots}

CreatedUnchanged ==
    UNCHANGED <<seriesData, activeViewers, positionMap, currentFrameIndex,
                currentPosition, isPlaying, playInterval, syncEnabled, syncMode,
                activeSeries, radioMode, checkboxChecked, visible,
                savedSeriesData, loadPhase, pendingGroups, switched, loops,
                last, traced, now, delay, lastTime, advances, lastPaint,
                missedTick, lastWheelTime, wheelDelta, renderVars, cacheVars,
                input, objectUrls>>

\* processSeriesFiles stores the series of the selected files: every frame
\* is pushed together with its position.
SeriesOfFiles ==
    /\ output = <<>>
    /\ input.kind = "batch"
    /\ LET frames == SeriesFrames(input.files)
       IN  output' = [stored |-> TRUE,
                      series |-> [frames |-> frames,
                                  positions |-> [i \in 1..Len(frames) |-> frames[i].position]]]
    /\ CreatedUnchanged

\* loadFile stores a series of one frame at position 0.
SeriesOfFile ==
    /\ output = <<>>
    /\ input.kind = "file"
    /\ output' = [stored |-> TRUE,
                  series |-> [frames |-> <<[name |-> input.name, frameNumber |-> 0,
                                            position |-> 0]>>,
                              positions |-> <<0>>]]
    /\ CreatedUnchanged

\* loadSavedSeriesData stores the series of a snapshot if at least one of its
\* frames could be decoded.
SeriesOfSnapshot ==
    /\ output = <<>>
    /\ input.kind = "snapshot"
    /\ LET series == LoadSavedSeriesData(input.snapshot)
       IN  output' = [stored |-> Len(series.frames) > 0, series |-> series]
    /\ CreatedUnchanged

InitCreated ==
    /\ InitView
    /\ traced = Handlers
    /\ now = 0
    /\ delay = 0
    /\ lastTime = 0
    /\ advances = 0
    /\ lastPaint = 0
    /\ missedTick = FALSE
    /\ lastWheelTime = 0
    /\ wheelDelta = 0
    /\ slots = EmptyMap
    /\ inflight = <<>>
    /\ inFrame = FALSE
    /\ imageCache = {}
    /\ loadResult = EmptyMap
    /\ preloads = <<>>
    /\ input \in CreationInputs
    /\ output = <<>>
    /\ objectUrls = NoUrls(FALSE)

NextCreated == SeriesOfFiles \/ SeriesOfFile \/ SeriesOfSnapshot

SpecCreated == InitCreated /\ [][NextCreated]_vars

\* C39: a series in the catalog has as many positions as frames, and its
\* i-th position is the position of its i-th frame.
C39_PositionsMatchFrames ==
    (output # <<>> /\ output.stored) =>
        /\ Len(output.series.positions) = Len(output.series.frames)
        /\ \A i \in 1..Len(output.series.frames) :
              output.series.positions[i] = output.series.frames[i].position

\* The same for the series that did not come from a snapshot.
CreatedFromFiles ==
    (output # <<>> /\ input.kind # "snapshot") =>
        /\ Len(output.series.positions) = Len(output.series.frames)
        /\ \A i \in 1..Len(output.series.frames) :
              output.series.positions[i] = output.series.frames[i].position

\* The same for the series of a snapshot that saveSeriesData wrote.
CreatedFromWritten ==
    (output # <<>> /\ input.kind = "snapshot"
        /\ \A i \in 1..Len(input.snapshot.frames) :
              Atob(input.snapshot.frames[i].data).ok) =>
        /\ Len(output.series.positions) = Len(output.series.frames)
        /\ \A i \in 1..Len(output.series.frames) :
              output.series.positions[i] = output.series.frames[i].position

\* C35: at most one playback loop has a paint callback pending, and the
\* playing flag is on exactly when one has.
C35_OneLoopWhilePlaying ==
    /\ Len(loops) <= 1
    /\ isPlaying <=> loops # <<>>

\* The two halves of it, to tell the ways it fails apart.
AtMostOneLoop == Len(loops) <= 1

PlayingHasLoop == isPlaying => loops # <<>>

LoopIsPlaying == loops # <<>> => isPlaying

\* ------------------------------------------------------------------------
\* The clear command on a loaded view.

\* A view with two loaded series on which the modes are changed, the wheel
\* is turned and playback runs; the clear command comes at any time.
NextClear ==
    \/ PositionRadioChange
    \/ SyncCheckboxChange
    \/ \E deltaY \in {d \in WheelDeltas : Abs(d) < WheelThreshold} :
          HandleWheelScroll(WheelInterval, deltaY, "T1")
    \/ PlayPauseClick
    \/ \E i \in 1..MaxLoops, fire \in BOOLEAN : PlaybackTick(i, fire)
    \/ ClearSavedData

SpecClear == InitRender /\ [][NextClear]_vars

\* The state clearExistingData leaves.
Cleared ==
    /\ seriesData = EmptyMap
    /\ activeViewers = EmptyMap
    /\ imageCache = {}
    /\ positionMap = [positions |-> <<>>, series |-> EmptyMap]
    /\ syncEnabled
    /\ syncMode = "frame"
    /\ activeSeries = NoSeries
    /\ currentFrameIndex = 0
    /\ wheelDelta = 0
    /\ ~isPlaying
    /\ playInterval = "null"

\* C33: clearView leaves the catalog, the viewers, the image cache and the
\* position index empty, sync on in frame mode with no active series, the
\* global index 0, the wheel accumulator 0 and playback stopped; and while
\* the playing flag is off no paint callback of a playback loop advances a
\* frame.
C33_ClearResets ==
    [][ /\ ClearSavedData => Cleared'
        /\ (~isPlaying /\ \E i \in 1..MaxLoops, fire \in BOOLEAN : PlaybackTick(i, fire))
              => FramesUnchanged ]_vars

\* The clear command came while playback ran with sync off: the loop's paint
\* callback is still pending and the view is reset.
C33_Witness ==
    /\ last.op = "clearView"
    /\ loops # <<>>
    /\ ~checkboxChecked
    /\ Cleared

\* The preloadImage calls on locator u whose promise has not resolved.
PendingOn(u) == {k \in DOMAIN preloads : preloads[k].url = u}

\* Two preloadImage calls on locator u are under way at once: the one of the
\* batch and a direct one.
Concurrent(u) == Unresolved(u, "batch") /\ Unresolved(u, "none")

\* C34: when two preloadImage calls on the same locator run at once, both
\* promises resolve whatever the order of their load events and decode
\* results; a completion that finds the locator cached leaves the cache as it
\* is; and when no call on a locator is pending, the cache holds the locator
\* (once, as the key of a map) unless its load failed.
C34_ConcurrentPreloads ==
    /\ \A u \in BatchUrls, c \in {"batch", "none"} :
          Concurrent(u) ~> ~Unresolved(u, c)
    /\ [][ \A k \in PreloadSlots :
              (DecodeSettles(k) /\ preloads[k].url \in imageCache)
                 => imageCache' = imageCache ]_vars
    /\ [](\A u \in BatchUrls :
              PendingOn(u) = {} => (u \in imageCache <=> loadResult[u] # "loadFails"))

\* The direct call on a locator has overtaken the call of the batch: its
\* image is being decoded while the batch's image is still loading.
C34_Witness ==
    \E u \in BatchUrls : \E k1, k2 \in PendingOn(u) :
        /\ preloads[k1].cont = "batch" /\ preloads[k1].phase = "loading"
        /\ preloads[k2].cont = "none" /\ preloads[k2].phase = "decoding"

====
